---- MODULE Spec2Model ----
(***************************************************************************)
(* Deferred-job subsystem of Safety-chan: the events cog (schedule,        *)
(* signup, cancel, register_event), the poll cog's job insertion and the   *)
(* scheduler / named-lock registry they share; the stats cog's setCategory *)
(* command, which takes a named lock of the same registry.                 *)
(*                                                                         *)
(* Commands are independent units of execution (spec section 5): each      *)
(* command instance is a process that steps through its statements, and    *)
(* the steps of different commands, of the timing loop and of the          *)
(* dispatched handlers interleave.  Statements that only touch locals are  *)
(* merged with the shared access that follows them.                        *)
(*                                                                         *)
(* Python values are kept with their dynamic type where the code's         *)
(* behaviour depends on it: an int is not subscriptable, a list is.        *)
(***************************************************************************)
EXTENDS Integers, Sequences, FiniteSets, TLC

\* ---------------------------------------------------------------- bounds
MaxJobs == 2        \* job ids 1..MaxJobs can be handed out
MaxProcs == 2       \* concurrent signup/cancel command instances
MaxTicks == 1       \* the clock runs for MaxTicks ticks
NumMembers == 2     \* users 1..NumMembers see the channel; user 0 does not
MaxOptions == 3     \* a resolved poll has 1..MaxOptions options
MaxVotes == 2       \* votes of the users on one reaction: 0..MaxVotes
MaxDays == 2        \* midnights the birthday cron job is followed over
MaxUses == 2        \* emoji uses recorded for one (user, guild) pair

\* ------------------------------------------------------- program constants
MinPollSeconds == 30
SECONDS_IN_MINUTE == 60
SECONDS_IN_HOUR == 60 * SECONDS_IN_MINUTE
SECONDS_IN_DAY == 24 * SECONDS_IN_HOUR
NumEmojis == 20                      \* len(emojis_order)
DaysInYearE4 == 3652425              \* seconds_in_year, in 1/10000 days

Horizon == MaxTicks * MinPollSeconds
Users == 0..NumMembers
ChannelMembers == 1..NumMembers
ChannelId == NumMembers + 1          \* snowflake ids: disjoint from user ids
JobIds == 1..MaxJobs
Procs == 1..MaxProcs
NoJob == [id |-> 0]
NoReq == [kind |-> "none", who |-> 0, eid |-> 0]
NoDate == 0 - 1                      \* get_local_date could not parse
TimeInputs == {NoDate} \cup {k * MinPollSeconds : k \in 0..MaxTicks}
PollInputs == {MinPollSeconds - 1, MinPollSeconds}
Creators == {1}                      \* who issues schedule and poll commands

\* strings the code takes apart are sequences of characters
Space == <<" ">>
CategoryNames == {"joy", "sad"}
Emojis == {<<"a">>, <<"b">>}
GuildName == <<"G">>                 \* the name of the one guild
\* the *emojis a setCategory command is given (a server name may come last)
EmojiInputs ==
  {<<>>, << <<"a">> >>, << <<"b">> >>, << <<"a">>, <<"b">> >>,
   << <<"b">>, GuildName >>}
CatLockKey == MaxJobs + 1            \* f"{guildId}:categories:lock"
\* the event ids and emoji lists of the commands that contend for a lock
LockedIds == {1}
LockedEmojis == {<< <<"a">> >>, << <<"b">> >>}
\* the `timing` strings given to >poll
TimingInputs ==
  {<<>>, <<"x">>, <<"0">>, <<"1">>, <<"2", "9", "s">>, <<"3", "0", "s">>,
   <<"1", "m">>, <<"1", "m", "3", "0", "s">>, <<"3", "0", "s", "1", "m">>,
   <<"+", "1">>, <<"9", "0", "s">>, <<"9", "0", "m">>, <<"2", "5", "h">>,
   <<"1", "d", "2", "5", "h", "6", "1", "m", "6", "1", "s">>}
\* how many options a >poll command is given
OptionInputs == {0, 1, 2, NumEmojis + 1}
NoPoll ==
  [pc |-> "idle", who |-> 0, time |-> <<>>, options |-> 0,
   timing |-> <<0, 0, 0, 0>>, message |-> 0, created_at |-> 0, idx |-> 0,
   err |-> ""]
\* The message poll_result fetches: the option texts of its lines and the
\* reactions on it.  Texts are numbers ordered as the strings are; emoji
\* k < NumEmojis is emojis_order[k], any other number is another emoji.  The
\* bot's own reaction is on every option, users may add to it and may put
\* reactions of their own on the message.
Perms(n) == {f \in [1..n -> 1..n] : \A i, k \in 1..n : f[i] = f[k] => i = k}
Reaction(e, c) == [emoji |-> e, count |-> c]
OffListReactions(n) ==
  LET R == {Reaction(e, c) : e \in {n, NumEmojis}, c \in 1..(MaxVotes + 1)}
  IN {<<>>} \cup {<<r>> : r \in R}
       \cup {<<r1, r2>> : r1, r2 \in {r \in R : r.emoji = NumEmojis}}
MsgInputs(n) ==
  {[options |-> o,
    reactions |-> [i \in 1..n |-> Reaction(i - 1, c[i])] \o x] :
     o \in Perms(n), c \in [1..n -> 1..(MaxVotes + 1)],
     x \in OffListReactions(n)}
NoMsg == [options |-> <<>>, reactions |-> <<>>]
\* dates: datetime(year, month, day); a missing birthdate is None
Date(y, m, d) == [year |-> y, month |-> m, day |-> d]
None == Date(0, 0, 0)
Person(name, date) == [name |-> name, date |-> date]
\* the rows of the sheet, in sheet order; a refresh reads some of them
SheetRows ==
  <<Person("d", None), Person("c", Date(2000, 2, 29)),
    Person("a", Date(2000, 2, 28)), Person("b", Date(2001, 2, 28))>>
SheetInputs ==
  {SelectSeq(SheetRows, LAMBDA r : r.name \in S) :
     S \in SUBSET {SheetRows[i].name : i \in 1..Len(SheetRows)}}
\* a row with fewer than two cells, as the sheet gives a blank line
ShortRow == Person("", None)
\* sheets with a blank line in them
BrokenSheets ==
  {<<ShortRow>>, <<SheetRows[2], ShortRow, SheetRows[3], SheetRows[4]>>}
\* the day the bot starts on: in a common year and in a leap year
FirstDay == Date(2023, 2, 27)
StartDays == {FirstDay, Date(2024, 2, 27)}
NoScan == [pc |-> "idle", day |-> None, message |-> <<>>, sent |-> <<>>,
           result |-> ""]
EmptyHash == [c \in {} |-> <<>>]
\* Members whose messages and reactions the bot sees: <<user id, guild id>>
\* (user 1 is in guilds 1 and 2, user 2 in guild 1)
StatMembers == {<<1, 1>>, <<1, 2>>, <<2, 1>>}
\* message.content, token by token: "a" is a unicode emoji, "b" a custom
\* emoji "<:name:id>", "x" any other text
unicode_emojis == {"a"}
discord_emojis == {"b"}
Contents == {<<"x">>, <<"a", "x", "b">>, <<"a", "a">>}
CommandContents == {<<"x">>, <<"a", "b">>}
StatCommands == {"consent", "revoke", "delete", "stats", "uses"}
NoGuild == 0                         \* idOrName = None
NoMessage == [command |-> "", key |-> <<0, 0>>, content |-> <<>>]
NoCat == [category |-> "", emojis |-> <<>>, existing_categories |-> EmptyHash]

VARIABLES
  now,        \* wall clock, seconds
  jobs,       \* scheduler job store: id -> job or NoJob
  nextId,     \* next job id to hand out (stands for the uuid generator)
  channels,   \* channel ids the bot can still resolve
  held,       \* named locks: set of <<holder, key>>
  pc,         \* position of each command instance
  req,        \* its command: kind, author, event_id
  job,        \* its local `job` (snapshot returned by get_job)
  added,      \* signup's local `added`
  err,        \* raised exception / cancel's error_msg ("" = none)
  fired,      \* dispatch log of the timing loop, in dispatch order
  cat,        \* setCategory's locals: category, emojis, existing_categories
  categories, \* redis hash f"{guildId}:categories": category -> emoji string
  msgs,       \* the poll messages sent, by message id
  pollc,      \* the >poll command instance: position and locals
  msg,        \* poll_result's `msg`: option texts and reactions
  result_msg, \* poll_result's `result_msg`, part by part
  users,      \* user ids bot.get_user still resolves
  net,        \* TRUE while calls to Discord succeed
  birthdays,  \* BirthdayManager.birthdays, the cached list
  today,      \* the local date
  days,       \* midnights passed since the start
  fire,       \* the cron job is dispatched, schedule_birthday not yet run
  lock,       \* BirthdayManager.lock is held
  ready,      \* bot.get_channel(self.channel) resolves
  scan,       \* schedule_birthday's position, locals and what it sent
  refreshing, \* the refresh_birthdays loop is running
  stats,      \* redis hashes f"{user.id}:{guild.id}": field -> string
  inflight    \* the command message on_message is in the middle of

eventvars ==
  <<now, jobs, nextId, channels, held, pc, req, job, added, err, fired>>
catvars == <<cat, categories>>
pollvars == <<msgs, pollc>>
tallyvars == <<msg, result_msg>>
envvars == <<users, net>>
bdayvars == <<birthdays, today, days, fire, lock, ready, scan, refreshing>>
statvars == <<stats, inflight>>

vars ==
  <<eventvars, catvars, pollvars, tallyvars, envvars, bdayvars, statvars>>

\* ------------------------------------------------------------ Python values
PyInt(n) == [t |-> "int", v |-> n]
PyStr(s) == [t |-> "str", v |-> s]
PyList(s) == [t |-> "list", v |-> s]

\* Member.mention: "<@id>", a string distinct from the id itself
Mention(u) == [mention |-> u]

\* args[i] with Python's 0-based index
Arg(args, i) == args[i + 1]

Contains(s, x) == \E i \in 1..Len(s) : s[i] = x

NoDup(s) == \A i, k \in 1..Len(s) : s[i] = s[k] => i = k

\* sep.join(parts)
RECURSIVE Join(_, _)
Join(parts, sep) ==
  IF Len(parts) = 0 THEN <<>>
  ELSE IF Len(parts) = 1 THEN parts[1]
  ELSE parts[1] \o sep \o Join(Tail(parts), sep)

\* Python's `sub in s` on two strings: s has sub as a contiguous part
Substring(sub, s) ==
  \E i \in 0..(Len(s) - Len(sub)) : SubSeq(s, i + 1, i + Len(sub)) = sub

\* ----------------------------------------------------------- parse_time
Digits == <<"0", "1", "2", "3", "4", "5", "6", "7", "8", "9">>

IsDigit(c) == \E d \in 1..Len(Digits) : Digits[d] = c

DigitVal(c) == (CHOOSE d \in 1..Len(Digits) : Digits[d] = c) - 1

\* the value of a string of digits
RECURSIVE Val(_)
Val(ds) ==
  IF Len(ds) = 0 THEN 0
  ELSE Len(Digits) * Val(SubSeq(ds, 1, Len(ds) - 1)) + DigitVal(ds[Len(ds)])

AllDigits(ds) == Len(ds) > 0 /\ \A i \in 1..Len(ds) : IsDigit(ds[i])

Signed(str) == Len(str) > 0 /\ str[1] \in {"-", "+"}

\* int(str) does not raise ValueError
IsInt(str) == AllDigits(IF Signed(str) THEN Tail(str) ELSE str)

\* int(str)
int(str) ==
  IF Signed(str)
    THEN IF str[1] = "-" THEN 0 - Val(Tail(str)) ELSE Val(Tail(str))
    ELSE Val(str)

\* the unit letters of `pattern`, in its order: days, hours, minutes, seconds
Units == <<"d", "h", "m", "s">>

RECURSIVE DigitPrefix(_)
DigitPrefix(str) ==
  IF Len(str) > 0 /\ IsDigit(str[1]) THEN 1 + DigitPrefix(Tail(str)) ELSE 0

NoGroups == [u \in 1..Len(Units) |-> <<>>]

\* match(pattern, str) from group u on: the groups, each one optional and
\* in order, then the end of the string; ok = FALSE stands for None
RECURSIVE MatchFrom(_, _)
MatchFrom(str, u) ==
  IF u > Len(Units)
    THEN [ok |-> Len(str) = 0, group |-> NoGroups]
    ELSE LET k == DigitPrefix(str) IN
      IF k > 0 /\ Len(str) > k /\ str[k + 1] = Units[u]
        THEN LET rest == MatchFrom(SubSeq(str, k + 2, Len(str)), u + 1) IN
               [ok |-> rest.ok,
                group |-> [rest.group EXCEPT ![u] = SubSeq(str, 1, k + 1)]]
        ELSE MatchFrom(str, u + 1)

match(str) == MatchFrom(str, 1)

\* group[:-1], the digits of a matched group
Number(g) == int(SubSeq(g, 1, Len(g) - 1))

\* parse_time raises "... is not a valid time string"
NotATime(time) == ~IsInt(time) /\ ~match(time).ok

\* parse_time's `seconds` when it reaches the test against 30
Seconds(time) ==
  IF IsInt(time)
    THEN SECONDS_IN_MINUTE * int(time)
    ELSE LET g == match(time).group IN
        (IF Len(g[4]) > 0 THEN Number(g[4]) ELSE 0)
      + (IF Len(g[3]) > 0 THEN SECONDS_IN_MINUTE * Number(g[3]) ELSE 0)
      + (IF Len(g[2]) > 0 THEN SECONDS_IN_HOUR * Number(g[2]) ELSE 0)
      + (IF Len(g[1]) > 0 THEN SECONDS_IN_DAY * Number(g[1]) ELSE 0)

\* parse_time raises (either ValueError)
ParseRaises(time) == NotATime(time) \/ Seconds(time) < MinPollSeconds

\* parse_time that takes the minutes out of `seconds` without reducing it
parse_time_minutes_left_in(time) ==
  LET s0 == Seconds(time)
      d == IF s0 >= SECONDS_IN_DAY THEN s0 \div SECONDS_IN_DAY ELSE 0
      s1 == IF s0 >= SECONDS_IN_DAY THEN s0 % SECONDS_IN_DAY ELSE s0
      h == IF s1 >= SECONDS_IN_HOUR THEN s1 \div SECONDS_IN_HOUR ELSE 0
      s2 == IF s1 >= SECONDS_IN_HOUR THEN s1 % SECONDS_IN_HOUR ELSE s1
      m == IF s2 >= SECONDS_IN_MINUTE THEN s2 \div SECONDS_IN_MINUTE ELSE 0
  IN <<s2, m, h, d>>

\* parse_time's return value [seconds, minutes, hours, days]
parse_time(time) ==
  LET s0 == Seconds(time)
      d == IF s0 >= SECONDS_IN_DAY THEN s0 \div SECONDS_IN_DAY ELSE 0
      s1 == IF s0 >= SECONDS_IN_DAY THEN s0 % SECONDS_IN_DAY ELSE s0
      h == IF s1 >= SECONDS_IN_HOUR THEN s1 \div SECONDS_IN_HOUR ELSE 0
      s2 == IF s1 >= SECONDS_IN_HOUR THEN s1 % SECONDS_IN_HOUR ELSE s1
      m == IF s2 >= SECONDS_IN_MINUTE THEN s2 \div SECONDS_IN_MINUTE ELSE 0
      s3 == IF s2 >= SECONDS_IN_MINUTE THEN s2 % SECONDS_IN_MINUTE ELSE s2
  IN <<s3, m, h, d>>

\* timedelta(seconds=timing[0], minutes=timing[1], hours=..., days=...)
timedelta(timing) ==
  timing[1] + SECONDS_IN_MINUTE * timing[2] + SECONDS_IN_HOUR * timing[3]
    + SECONDS_IN_DAY * timing[4]

\* bot.get_channel(id): the channel if the id names a live channel, else None
get_channel(id) == id.t = "int" /\ id.v \in channels

\* ------------------------------------------------------------- scheduler
get_job(id) == IF id \in JobIds THEN jobs[id] ELSE NoJob

\* scheduler.add_job(func, trigger, run_date, args): a fresh id, stored
add_job(func, trigger, period, run_date, args) ==
  /\ nextId <= MaxJobs
  /\ jobs' = [jobs EXCEPT ![nextId] =
                [id |-> nextId, func |-> func, trigger |-> trigger,
                 period |-> period, run_date |-> run_date, args |-> args]]
  /\ nextId' = nextId + 1

Due == {j \in JobIds : jobs[j] # NoJob /\ jobs[j].run_date <= now}

\* the job of S to run first: earliest run_date, ties by insertion order
First(S) ==
  CHOOSE j \in S : \A k \in S :
     \/ jobs[j].run_date < jobs[k].run_date
     \/ (jobs[j].run_date = jobs[k].run_date /\ j <= k)

RECURSIVE get_due_jobs(_)
get_due_jobs(S) ==
  IF S = {} THEN <<>>
  ELSE LET j == First(S) IN <<j>> \o get_due_jobs(S \ {j})

Dispatch(j) ==
  [id |-> j, func |-> jobs[j].func, args |-> jobs[j].args,
   run_date |-> jobs[j].run_date, result |-> "pending"]

\* The timing loop: every due job is submitted to the executor in run-time
\* order; a job with no next run time is removed, another one is re-armed.
process_jobs ==
  /\ Due # {}
  /\ LET batch == get_due_jobs(Due) IN
       fired' = fired \o [i \in 1..Len(batch) |-> Dispatch(batch[i])]
  /\ jobs' = [j \in JobIds |->
                IF j \in Due
                  THEN IF jobs[j].trigger = "date"
                         THEN NoJob
                         ELSE [jobs[j] EXCEPT
                                 !.run_date = jobs[j].run_date + jobs[j].period]
                  ELSE jobs[j]]
  /\ UNCHANGED <<now, nextId, channels, held, pc, req, job, added, err>>

\* ---------------------------------------------------------- lock registry
Locked(key) == \E h \in held : h[2] = key

\* redlocks.create_lock(key).__enter__: acquired only when nobody holds key
create_lock(p, key) ==
  /\ ~Locked(key)
  /\ held' = held \cup {<<p, key>>}

\* ...__exit__: unconditional release
release(p, key) == held' = held \ {<<p, key>>}

\* ------------------------------------------------------------- handlers
\* bot.get_user(id): the user if the bot still knows the id, else None
get_user(id) == id.t = "int" /\ id.v \in users

\* `author = bot.get_user(author_id)`, then `if author: await author.send`
\* (register_event lines 39-43, alert_author lines 160-163): what comes of it
NotifyAuthor(author_id) ==
  IF get_user(author_id)
    THEN IF net THEN "author_notified" ELSE "notify_failed"
    ELSE "nobody_notified"

\* channel.fetch_message(msg_id) returns the message; it raises NotFound
\* for a deleted message and HTTPException when the call fails
fetch_message(msg_id) ==
  /\ net
  /\ msg_id.t = "int"
  /\ msg_id.v \in 1..Len(msgs)
  /\ msgs[msg_id.v].exists

\* register_event without its try/except
register_event_no_try(i) ==
  /\ fired[i].func = "register_event"
  /\ fired[i].result = "pending"
  /\ fired' = [fired EXCEPT ![i].result =
                 IF get_channel(Arg(fired[i].args, 0))
                   THEN IF net THEN "announced" ELSE "raised"
                   ELSE IF get_user(Arg(fired[i].args, 3)) /\ ~net
                     THEN "raised"
                     ELSE NotifyAuthor(Arg(fired[i].args, 3))]
  /\ UNCHANGED <<now, jobs, nextId, channels, held, pc, req, job, added, err>>

\* register_event that announces into a channel it did not look up
register_event_no_lookup(i) ==
  /\ fired[i].func = "register_event"
  /\ fired[i].result = "pending"
  /\ fired' = [fired EXCEPT ![i].result =
                 IF net THEN "announced" ELSE "announce_failed"]
  /\ UNCHANGED <<now, jobs, nextId, channels, held, pc, req, job, added, err>>

\* register_event: one channel.send of the announcement, or the notice to
\* the author when the channel is gone; a send that raises is printed
register_event(i) ==
  /\ fired[i].func = "register_event"
  /\ fired[i].result = "pending"
  /\ fired' = [fired EXCEPT ![i].result =
                 IF get_channel(Arg(fired[i].args, 0))
                   THEN IF net THEN "announced" ELSE "announce_failed"
                   ELSE NotifyAuthor(Arg(fired[i].args, 3))]
  /\ UNCHANGED <<now, jobs, nextId, channels, held, pc, req, job, added, err>>

\* poll_result: alert_author when the channel is gone; fetch_message, whose
\* exception is printed; else one channel.send of the results
poll_result(i) ==
  /\ fired[i].func = "poll_result"
  /\ fired[i].result = "pending"
  /\ fired' = [fired EXCEPT ![i].result =
                 IF ~get_channel(Arg(fired[i].args, 1))
                   THEN NotifyAuthor(Arg(fired[i].args, 0))
                 ELSE IF ~fetch_message(Arg(fired[i].args, 2))
                   THEN "fetch_failed"
                 ELSE IF net THEN "results_sent" ELSE "results_failed"]
  /\ UNCHANGED <<now, jobs, nextId, channels, held, pc, req, job, added, err>>

\* ---- poll_result, lines 196-242: from the reactions to the result message
\* emojis_order.index(reaction.emoji) succeeds and index < len(options)
IsOption(options, r) == r.emoji < NumEmojis /\ r.emoji < Len(options)

IsOther(options, r) == ~IsOption(options, r)

\* results, before it is sorted: (reaction.count - 1, options[index])
Results(options, reactions) ==
  LET sel == SelectSeq(reactions, LAMBDA r : IsOption(options, r))
  IN [k \in 1..Len(sel) |-> <<sel[k].count - 1, options[sel[k].emoji + 1]>>]

\* others, before it is sorted: (reaction.count, str(reaction))
Others(options, reactions) ==
  LET sel == SelectSeq(reactions, LAMBDA r : IsOther(options, r))
  IN [k \in 1..Len(sel) |-> <<sel[k].count, sel[k].emoji>>]

\* the order of Python tuples
TupleLess(a, b) == a[1] < b[1] \/ (a[1] = b[1] /\ a[2] < b[2])

Remove(seq, i) == SubSeq(seq, 1, i - 1) \o SubSeq(seq, i + 1, Len(seq))

\* list.sort(reverse=True) on a list of tuples
RECURSIVE SortReverse(_)
SortReverse(seq) ==
  IF Len(seq) = 0 THEN <<>>
  ELSE LET i == CHOOSE i \in 1..Len(seq) :
                  \A k \in 1..Len(seq) : ~TupleLess(seq[i], seq[k])
       IN <<seq[i]>> \o SortReverse(Remove(seq, i))

\* list.sort() on a list of strings
RECURSIVE Sort(_)
Sort(seq) ==
  IF Len(seq) = 0 THEN <<>>
  ELSE LET i == CHOOSE i \in 1..Len(seq) :
                  \A k \in 1..Len(seq) : seq[i] <= seq[k]
       IN <<seq[i]>> \o Sort(Remove(seq, i))

\* wins that keeps the first entry only
Wins_first_only(results) == <<results[1][2]>>

\* wins: the texts of the leading entries of the sorted results that have
\* the count of the first one, sorted
Wins(results) ==
  LET max_count == results[1][1]
      n == CHOOSE n \in 1..Len(results) :
             /\ \A idx \in 1..n : results[idx][1] = max_count
             /\ n = Len(results) \/ results[n + 1][1] # max_count
  IN Sort([idx \in 1..n |-> results[idx][2]])

Part(kind, names, count) == [part |-> kind, names |-> names, count |-> count]

\* the advisory for any off-list reaction that is not behind the best option
Advisory_not_less(results, others) ==
  IF Len(others) > 0 /\ others[1][1] >= results[1][1]
    THEN <<Part("advisory", <<others[1][2]>>, others[1][1])>>
    ELSE <<>>

\* lines 222-227
Advisory(results, others) ==
  IF Len(others) > 0 /\ others[1][1] > results[1][1]
    THEN <<Part("advisory", <<others[1][2]>>, others[1][1])>>
    ELSE <<>>

\* result_msg as poll_result builds it
ResultMsg(options, reactions) ==
  LET others == SortReverse(Others(options, reactions))
      results == SortReverse(Results(options, reactions))
      wins == Wins(results)
      max_count == results[1][1]
  IN <<Part("header", <<>>, 0)>>
       \o Advisory(results, others)
       \o <<Part(IF Len(wins) > 1 THEN "tie" ELSE "wins", wins, max_count)>>
       \o [k \in 1..(Len(results) - Len(wins)) |->
             Part("line", <<results[Len(wins) + k][2]>>,
                  results[Len(wins) + k][1])]

\* poll_result from the fetched message to channel.send(result_msg)
PollTally ==
  /\ Len(result_msg) = 0
  /\ Len(Results(msg.options, msg.reactions)) > 0
  /\ result_msg' = ResultMsg(msg.options, msg.reactions)
  /\ UNCHANGED <<eventvars, catvars, pollvars, msg, envvars, bdayvars, statvars>>

\* ------------------------------------------------------------ birthdays
IsLeap(y) == (y % 4 = 0 /\ y % 100 # 0) \/ y % 400 = 0

DaysInMonth(y, m) ==
  IF m = 2 THEN (IF IsLeap(y) THEN 29 ELSE 28)
  ELSE IF m \in {4, 6, 9, 11} THEN 30 ELSE 31

\* datetime.replace(year=y) does not raise ValueError
ValidDate(y, m, d) == m \in 1..12 /\ d \in 1..DaysInMonth(y, m)

RECURSIVE DaysBeforeMonth(_, _)
DaysBeforeMonth(y, m) ==
  IF m = 1 THEN 0 ELSE DaysBeforeMonth(y, m - 1) + DaysInMonth(y, m - 1)

\* date.toordinal(): days since 0001-01-01, that day being 1
ToOrdinal(dt) ==
  LET y == dt.year - 1
  IN y * 365 + (y \div 4) - (y \div 100) + (y \div 400)
       + DaysBeforeMonth(dt.year, dt.month) + dt.day

\* dt + timedelta(1), on dates
NextDate(dt) ==
  IF dt.day < DaysInMonth(dt.year, dt.month)
    THEN Date(dt.year, dt.month, dt.day + 1)
    ELSE IF dt.month < 12
      THEN Date(dt.year, dt.month + 1, 1)
      ELSE Date(dt.year + 1, 1, 1)

\* compare_people(a, b) <= 0
BeforeOrSame(a, b) ==
  IF a.date = None /\ b.date = None THEN TRUE
  ELSE IF a.date = None THEN FALSE
  ELSE IF b.date = None THEN TRUE
  ELSE IF a.date.month # b.date.month THEN a.date.month < b.date.month
  ELSE a.date.day <= b.date.day

\* list.sort(key=cmp_to_key(compare_people)): stable
RECURSIVE SortPeople(_)
SortPeople(seq) ==
  IF Len(seq) = 0 THEN <<>>
  ELSE LET i == CHOOSE i \in 1..Len(seq) :
                  /\ \A k \in 1..Len(seq) : BeforeOrSame(seq[i], seq[k])
                  /\ \A k \in 1..(i - 1) : ~BeforeOrSame(seq[k], seq[i])
       IN <<seq[i]>> \o SortPeople(Remove(seq, i))

\* refresh_birthdays: under the lock the list is cleared, filled from the
\* sheet and sorted, with no await in between.
\* `person[1]` raises IndexError on a row with fewer than two cells: the
\* rows before it stay in the list, unsorted, and the loop stops
refresh_birthdays(data) ==
  /\ refreshing
  /\ ~lock
  /\ LET short == {i \in 1..Len(data) : data[i] = ShortRow} IN
       IF short = {}
         THEN /\ birthdays' = SortPeople(data)
              /\ UNCHANGED refreshing
         ELSE /\ birthdays' =
                   SubSeq(data, 1, (CHOOSE i \in short :
                                      \A k \in short : i <= k) - 1)
              /\ refreshing' = FALSE
  /\ UNCHANGED <<today, days, fire, lock, ready, scan>>

\* local midnight: the cron trigger fires (the run dispatched the night
\* before has started by then); a run that is still under way keeps the job
\* from being started again
Midnight ==
  /\ days < MaxDays
  /\ ~fire
  /\ today' = NextDate(today)
  /\ days' = days + 1
  /\ fire' = (scan.pc = "idle")
  /\ UNCHANGED <<birthdays, lock, ready, scan, refreshing>>

\* the people of the list whose birthday falls on `day`, lines 113-122
DueOn(day) ==
  SelectSeq(birthdays,
            LAMBDA person : /\ person.date # None
                            /\ person.date.month = day.month
                            /\ person.date.day = day.day)

\* person[1].replace(year=now.year) raises for some person of the list
ReplaceRaises(day) ==
  \E i \in 1..Len(birthdays) :
    /\ birthdays[i].date # None
    /\ ~ValidDate(day.year, birthdays[i].date.month, birthdays[i].date.day)

\* round(x / y) for x, y > 0
Round(x, y) == (2 * x + y) \div (2 * y)

\* round((tomorrow - birthdate).total_seconds() / seconds_in_year)
Age(person, tomorrow) ==
  Round((ToOrdinal(tomorrow) - ToOrdinal(person.date)) * 10000, DaysInYearE4)

\* the message: the names, then one line per person with the age
Message(people, tomorrow) ==
  [names |-> [i \in 1..Len(people) |-> people[i].name],
   ages |-> [i \in 1..Len(people) |->
               <<people[i].name, Age(people[i], tomorrow)>>]]

\* target_channel.send(message), which may raise
Send(message) ==
  IF net
    THEN [NoScan EXCEPT !.sent = <<message>>, !.result = "sent"]
    ELSE [NoScan EXCEPT !.result = "printed"]

\* schedule_birthday up to the first await inside it: the whole run when
\* nobody is due, when something raises or when the channel resolves; else
\* it stays in the while loop, holding the lock
schedule_birthday ==
  /\ fire
  /\ ~lock
  /\ fire' = FALSE
  /\ LET people == DueOn(today)
         message == Message(people, NextDate(today))
     IN IF ReplaceRaises(today)
          THEN \* ValueError: day is out of range for month; print(e)
               /\ scan' = [NoScan EXCEPT !.day = today, !.result = "printed"]
               /\ UNCHANGED lock
        ELSE IF Len(people) = 0
          THEN /\ scan' = [NoScan EXCEPT !.day = today, !.result = "none_due"]
               /\ UNCHANGED lock
        ELSE IF ready
          THEN /\ scan' = [Send(message) EXCEPT !.day = today]
               /\ UNCHANGED lock
          ELSE /\ scan' = [NoScan EXCEPT !.pc = "waiting", !.day = today,
                                         !.message = message]
               /\ lock' = TRUE
  /\ UNCHANGED <<birthdays, today, days, ready, refreshing>>

\* the while loop finds the channel: the message is sent, the lock released
BirthdayWait ==
  /\ scan.pc = "waiting"
  /\ ready
  /\ scan' = [Send(scan.message) EXCEPT !.day = scan.day]
  /\ lock' = FALSE
  /\ UNCHANGED <<birthdays, today, days, fire, ready, refreshing>>

\* the bot's cache is filled: the announcement channel resolves from now on
BotReady ==
  /\ ~ready
  /\ ready' = TRUE
  /\ UNCHANGED <<birthdays, today, days, fire, lock, scan, refreshing>>

\* ------------------------------------------------------------- commands
\* schedule with a recurring trigger in place of 'date'
schedule_interval(u, time) ==
  /\ u \in ChannelMembers
  /\ get_channel(PyInt(ChannelId))
  /\ IF time = NoDate
       THEN UNCHANGED <<jobs, nextId>>
       ELSE IF time < now
         THEN UNCHANGED <<jobs, nextId>>
         ELSE add_job("register_event", "interval", MinPollSeconds, time,
                      <<PyInt(ChannelId), PyStr("event"), PyStr(time),
                        PyInt(u), PyList(<<Mention(u)>>)>>)
  /\ UNCHANGED <<now, channels, held, pc, req, job, added, err, fired>>

\* schedule with a run_date that is earlier than the requested time
schedule_early(u, time) ==
  /\ u \in ChannelMembers
  /\ get_channel(PyInt(ChannelId))
  /\ IF time = NoDate
       THEN UNCHANGED <<jobs, nextId>>
       ELSE IF time < now
         THEN UNCHANGED <<jobs, nextId>>
         ELSE add_job("register_event", "date", 0, time - MinPollSeconds,
                      <<PyInt(ChannelId), PyStr("event"), PyStr(time),
                        PyInt(u), PyList(<<Mention(u)>>)>>)
  /\ UNCHANGED <<now, channels, held, pc, req, job, added, err, fired>>

\* schedule that puts the creator into the member list twice
schedule_creator_twice(u, time) ==
  /\ u \in ChannelMembers
  /\ get_channel(PyInt(ChannelId))
  /\ IF time = NoDate
       THEN UNCHANGED <<jobs, nextId>>
       ELSE IF time < now
         THEN UNCHANGED <<jobs, nextId>>
         ELSE add_job("register_event", "date", 0, time,
                      <<PyInt(ChannelId), PyStr("event"), PyStr(time),
                        PyInt(u), PyList(<<Mention(u), Mention(u)>>)>>)
  /\ UNCHANGED <<now, channels, held, pc, req, job, added, err, fired>>

\* schedule that leaves out the test of line 79
schedule_past_accepted(u, time) ==
  /\ u \in ChannelMembers
  /\ get_channel(PyInt(ChannelId))
  /\ IF time = NoDate
       THEN UNCHANGED <<jobs, nextId>>
       ELSE add_job("register_event", "date", 0, time,
                    <<PyInt(ChannelId), PyStr("event"), PyStr(time),
                      PyInt(u), PyList(<<Mention(u)>>)>>)
  /\ UNCHANGED <<now, channels, held, pc, req, job, added, err, fired>>

\* what schedule answers: a raised ValueError through cog_command_error
\* (lines 74 and 80), or the message of lines 88-93
ScheduleReplyOf(time) ==
  IF time = NoDate THEN [to |-> "ctx", text |-> "could_not_parse"]
  ELSE IF time < now THEN [to |-> "ctx", text |-> "in_the_past"]
  ELSE [to |-> "ctx", text |-> "sign_up_with_the_id"]

\* EventsManager.schedule (guild only: sent in the channel)
schedule(u, time) ==
  /\ u \in ChannelMembers
  /\ get_channel(PyInt(ChannelId))
  /\ IF time = NoDate
       THEN UNCHANGED <<jobs, nextId>>     \* ValueError: could not parse
       ELSE IF time < now
         THEN UNCHANGED <<jobs, nextId>>   \* ValueError: in the past
         ELSE add_job("register_event", "date", 0, time,
                      <<PyInt(ChannelId), PyStr("event"), PyStr(time),
                        PyInt(u), PyList(<<Mention(u)>>)>>)
  /\ UNCHANGED <<now, channels, held, pc, req, job, added, err, fired>>

\* ctx.send(poll): a new message, no reaction on it yet
NewMessage == [reactions |-> 0, exists |-> TRUE]

\* PollManager.poll as one step, for a poll with one option whose `timing`
\* parses to `seconds`: parse_time rejects under 30 s; else the message is
\* sent, the option's reaction is added and the job is added last
poll(u, seconds) ==
  /\ u \in ChannelMembers
  /\ get_channel(PyInt(ChannelId))
  /\ IF seconds < MinPollSeconds
       THEN UNCHANGED <<jobs, nextId, msgs>> \* ValueError: at least 30 seconds
       ELSE /\ msgs' = Append(msgs, [NewMessage EXCEPT !.reactions = 1])
            /\ add_job("poll_result", "date", 0, now + seconds,
                       <<PyInt(u), PyInt(ChannelId), PyInt(Len(msgs) + 1),
                         PyStr("topic")>>)
  /\ UNCHANGED <<now, channels, held, pc, req, job, added, err, fired>>

\* ---- PollManager.poll statement by statement
\* poll that goes on to send the message whatever parse_time says
PollCheck_unchecked(u, time, options) ==
  /\ pollc.pc = "idle"
  /\ nextId <= MaxJobs
  /\ u \in ChannelMembers
  /\ pollc' = [NoPoll EXCEPT !.who = u, !.time = time, !.options = options,
                 !.timing = parse_time(time), !.pc = "send"]
  /\ UNCHANGED <<eventvars, msgs>>

\* lines 283-289: the checks, parse_time among them
PollCheck(u, time, options) ==
  /\ pollc.pc = "idle"
  /\ nextId <= MaxJobs
  /\ u \in ChannelMembers
  /\ LET c == [NoPoll EXCEPT !.who = u, !.time = time, !.options = options]
     IN pollc' =
       IF options < 1
         THEN [c EXCEPT !.pc = "reply", !.err = "no_option"]
       ELSE IF NotATime(time)
         THEN [c EXCEPT !.pc = "reply", !.err = "not_a_valid_time"]
       ELSE IF Seconds(time) < MinPollSeconds
         THEN [c EXCEPT !.pc = "reply", !.err = "at_least_30_seconds"]
       ELSE IF options > NumEmojis
         THEN [c EXCEPT !.pc = "reply", !.err = "too_many_options"]
       ELSE [c EXCEPT !.pc = "send", !.timing = parse_time(time)]
  /\ UNCHANGED <<eventvars, msgs>>

\* line 298: message = await ctx.send(poll); the poll is posted at
\* message.created_at
PollSend ==
  /\ pollc.pc = "send"
  /\ msgs' = Append(msgs, NewMessage)
  /\ pollc' = [pollc EXCEPT !.pc = "react", !.message = Len(msgs) + 1,
                            !.created_at = now]
  /\ UNCHANGED eventvars

\* lines 300-301: await message.add_reaction(emojis_order[idx])
PollAddReaction ==
  /\ pollc.pc = "react"
  /\ pollc.idx < pollc.options
  /\ msgs' = [msgs EXCEPT ![pollc.message].reactions = @ + 1]
  /\ pollc' = [pollc EXCEPT !.idx = @ + 1]
  /\ UNCHANGED eventvars

\* lines 303-309: the job is added with run_date now + the duration
PollAddJob ==
  /\ pollc.pc = "react"
  /\ pollc.idx = pollc.options
  /\ add_job("poll_result", "date", 0, now + timedelta(pollc.timing),
             <<PyInt(pollc.who), PyInt(ChannelId), PyInt(pollc.message),
               PyStr("topic")>>)
  /\ pollc' = NoPoll
  /\ UNCHANGED <<now, channels, held, pc, req, job, added, err, fired, msgs>>

\* a raised ValueError is sent to ctx by cog_command_error
PollReply ==
  /\ pollc.pc = "reply"
  /\ pollc' = NoPoll
  /\ UNCHANGED <<eventvars, msgs>>

\* a user issues >signup or >cancel with some id
Issue(p, kind, u, id) ==
  /\ pc[p] = "idle"
  /\ pc' = [pc EXCEPT ![p] = "lock"]
  /\ req' = [req EXCEPT ![p] = [kind |-> kind, who |-> u, eid |-> id]]
  /\ UNCHANGED <<now, jobs, nextId, channels, held, job, added, err, fired>>

\* `with redlocks.create_lock(event_id):` entered
Lock(p) ==
  /\ pc[p] = "lock"
  /\ create_lock(p, req[p].eid)
  /\ pc' = [pc EXCEPT ![p] = "get"]
  /\ UNCHANGED <<now, jobs, nextId, channels, req, job, added, err, fired>>

\* a wait for a held lock that has no bound: the command goes on waiting
LockFail_unbounded(p) ==
  /\ pc[p] = "lock"
  /\ Locked(req[p].eid)
  /\ UNCHANGED <<now, jobs, nextId, channels, held, pc, req, job, added, err,
                 fired>>

\* the bounded wait for a held lock ran out: create_lock raises
LockFail(p) ==
  /\ pc[p] = "lock"
  /\ Locked(req[p].eid)
  /\ err' = [err EXCEPT ![p] = "LockError"]
  /\ pc' = [pc EXCEPT ![p] = "reply"]
  /\ UNCHANGED <<now, jobs, nextId, channels, held, req, job, added, fired>>

\* signup whose with block ends right after the lookup
SignupGetJob_early_release(p) ==
  /\ pc[p] = "get"
  /\ req[p].kind = "signup"
  /\ LET j == get_job(req[p].eid) IN
       IF j = NoJob
         THEN /\ err' = [err EXCEPT ![p] = "does_not_exist"]
              /\ pc' = [pc EXCEPT ![p] = "reply"]
              /\ UNCHANGED job
         ELSE /\ job' = [job EXCEPT ![p] = j]
              /\ pc' = [pc EXCEPT ![p] = "body"]
              /\ UNCHANGED err
  /\ release(p, req[p].eid)
  /\ UNCHANGED <<now, jobs, nextId, channels, req, added, fired>>

\* signup, lines 114-117
SignupGetJob(p) ==
  /\ pc[p] = "get"
  /\ req[p].kind = "signup"
  /\ LET j == get_job(req[p].eid) IN
       IF j = NoJob
         THEN /\ err' = [err EXCEPT ![p] = "does_not_exist"]
              /\ release(p, req[p].eid)
              /\ pc' = [pc EXCEPT ![p] = "reply"]
              /\ UNCHANGED job
         ELSE /\ job' = [job EXCEPT ![p] = j]
              /\ pc' = [pc EXCEPT ![p] = "body"]
              /\ UNCHANGED <<err, held>>
  /\ UNCHANGED <<now, jobs, nextId, channels, req, added, fired>>

\* signup without lines 118-122: no look at the channel and its members
SignupBody_no_member_check(p) ==
  /\ pc[p] = "body"
  /\ req[p].kind = "signup"
  /\ IF Arg(job[p].args, 3).t # "list"
       THEN err' = [err EXCEPT ![p] = "TypeError"]
       ELSE UNCHANGED err
  /\ UNCHANGED <<jobs, added>>
  /\ release(p, req[p].eid)
  /\ pc' = [pc EXCEPT ![p] = "reply"]
  /\ UNCHANGED <<now, nextId, channels, req, job, fired>>

\* signup, lines 119-133, up to the end of the with block
SignupBody(p) ==
  /\ pc[p] = "body"
  /\ req[p].kind = "signup"
  /\ LET args == job[p].args
         a0 == Arg(args, 0)
         a3 == Arg(args, 3)
         new_member == Mention(req[p].who)
     IN
       IF ~get_channel(a0) \/ req[p].who \notin ChannelMembers
         THEN /\ err' = [err EXCEPT ![p] = "does_not_exist"]
              /\ UNCHANGED <<jobs, added>>
         ELSE IF a3.t # "list"
           THEN \* author = job.args[3][0]: 'int' object is not subscriptable
                /\ err' = [err EXCEPT ![p] = "TypeError"]
                /\ UNCHANGED <<jobs, added>>
           ELSE IF Contains(a3.v, new_member)
             THEN UNCHANGED <<jobs, added, err>>
             ELSE IF jobs[req[p].eid] = NoJob
               THEN \* job.modify on a job that is gone
                    /\ err' = [err EXCEPT ![p] = "JobLookupError"]
                    /\ UNCHANGED <<jobs, added>>
               ELSE /\ jobs' = [jobs EXCEPT ![req[p].eid].args =
                                  SubSeq(args, 1, 3)
                                    \o <<PyList(Append(a3.v, new_member))>>]
                    /\ added' = [added EXCEPT ![p] = TRUE]
                    /\ UNCHANGED err
  /\ release(p, req[p].eid)
  /\ pc' = [pc EXCEPT ![p] = "reply"]
  /\ UNCHANGED <<now, nextId, channels, req, job, fired>>

\* cancel that reports a missing job with the message of the except branch
CancelBody_wrong_message(p) ==
  /\ pc[p] = "get"
  /\ req[p].kind = "cancel"
  /\ LET j == get_job(req[p].eid) IN
       /\ job' = [job EXCEPT ![p] = j]
       /\ IF j = NoJob
            THEN err' = [err EXCEPT ![p] = "an_error_occurred"]
            ELSE IF Arg(j.args, 3).t = "int"
              THEN err' = [err EXCEPT ![p] = "TypeError"]
              ELSE err' = [err EXCEPT ![p] = "could_not_find"]
  /\ release(p, req[p].eid)
  /\ pc' = [pc EXCEPT ![p] = "reply"]
  /\ UNCHANGED <<now, jobs, nextId, channels, req, added, fired>>

\* cancel whose answer is sent inside the with block, the lock still held
CancelBody_answers_inside(p) ==
  /\ pc[p] = "get"
  /\ req[p].kind = "cancel"
  /\ LET j == get_job(req[p].eid)
         author == Mention(req[p].who)
     IN
       /\ job' = [job EXCEPT ![p] = j]
       /\ IF j = NoJob
            THEN /\ err' = [err EXCEPT ![p] = "could_not_find"]
                 /\ UNCHANGED jobs
            ELSE LET a3 == Arg(j.args, 3) IN
              IF a3.t = "int"
                THEN /\ err' = [err EXCEPT ![p] = "TypeError"]
                     /\ release(p, req[p].eid)
                     /\ UNCHANGED jobs
                ELSE IF a3.t = "list" /\ a3.v[1] = author
                  THEN /\ jobs' = [jobs EXCEPT ![req[p].eid] = NoJob]
                       /\ UNCHANGED err
                  ELSE /\ err' = [err EXCEPT ![p] = "could_not_find"]
                       /\ UNCHANGED jobs
       /\ (j = NoJob \/ Arg(j.args, 3).t # "int") => UNCHANGED held
  /\ pc' = [pc EXCEPT ![p] = "reply"]
  /\ UNCHANGED <<now, nextId, channels, req, added, fired>>

\* cancel, lines 157-170, up to the end of the with block
CancelBody(p) ==
  /\ pc[p] = "get"
  /\ req[p].kind = "cancel"
  /\ LET j == get_job(req[p].eid)
         author == Mention(req[p].who)
     IN
       /\ job' = [job EXCEPT ![p] = j]
       /\ IF j = NoJob
            THEN /\ err' = [err EXCEPT ![p] = "could_not_find"]
                 /\ UNCHANGED jobs
            ELSE LET a3 == Arg(j.args, 3) IN
              IF a3.t = "int"
                THEN \* args[3][0]: 'int' object is not subscriptable
                     /\ err' = [err EXCEPT ![p] = "TypeError"]
                     /\ UNCHANGED jobs
                ELSE IF a3.t = "list" /\ a3.v[1] = author
                  THEN \* scheduler.remove_job inside try/except
                       /\ jobs' = [jobs EXCEPT ![req[p].eid] = NoJob]
                       /\ UNCHANGED err
                  ELSE /\ err' = [err EXCEPT ![p] = "could_not_find"]
                       /\ UNCHANGED jobs
  /\ release(p, req[p].eid)
  /\ pc' = [pc EXCEPT ![p] = "reply"]
  /\ UNCHANGED <<now, nextId, channels, req, added, fired>>

\* What the command sends once the with block is left, and where: a raised
\* error goes through cog_command_error (ctx.send); else signup's lines
\* 135-138, cancel's lines 172-185.
ReplyOf(p) ==
  IF err[p] # ""
    THEN [to |-> "ctx", text |-> err[p]]
    ELSE IF req[p].kind = "signup"
      THEN IF added[p]
             THEN [to |-> "channel", text |-> "has_signed_up"]
             ELSE [to |-> "author", text |-> "already_signed_up"]
      ELSE IF get_channel(Arg(job[p].args, 0))
             THEN [to |-> "channel", text |-> "cancelled"]
             ELSE [to |-> "ctx", text |-> "channel_no_longer_exists"]

\* the command sends ReplyOf(p) and returns
Reply(p) ==
  /\ pc[p] = "reply"
  /\ req[p].kind \in {"signup", "cancel"}
  /\ ReplyOf(p).to \in {"ctx", "channel", "author"}
  /\ pc' = [pc EXCEPT ![p] = "idle"]
  /\ req' = [req EXCEPT ![p] = NoReq]
  /\ job' = [job EXCEPT ![p] = NoJob]
  /\ added' = [added EXCEPT ![p] = FALSE]
  /\ err' = [err EXCEPT ![p] = ""]
  /\ UNCHANGED <<now, jobs, nextId, channels, held, fired>>

\* ------------------------------------------------------------ setCategory
\* StatsManager.get_guild(name): the guild of that name or id, else None
get_guild(name) == name = GuildName

\* setCategory up to the with statement: the argument checks, the guild
\* (the command is sent in a text channel of the guild), the key
setCategory(p, u, category, emojis) ==
  /\ pc[p] = "idle"
  /\ req' = [req EXCEPT ![p] =
               [kind |-> "setCategory", who |-> u, eid |-> CatLockKey]]
  /\ IF Len(emojis) = 0
       THEN \* ValueError: You must provide at least one emoji
            /\ err' = [err EXCEPT ![p] = "no_emoji"]
            /\ pc' = [pc EXCEPT ![p] = "reply"]
            /\ UNCHANGED cat
       ELSE /\ cat' = [cat EXCEPT ![p] =
                 [category |-> category,
                  emojis |-> IF get_guild(emojis[Len(emojis)])
                               THEN SubSeq(emojis, 1, Len(emojis) - 1)
                               ELSE emojis,
                  existing_categories |-> EmptyHash]]
            /\ pc' = [pc EXCEPT ![p] = "lock"]
            /\ UNCHANGED err
  /\ UNCHANGED <<now, jobs, nextId, channels, held, job, added, fired,
                 categories>>

\* existing_categories = redis.hgetall(key)
SetCategoryGet(p) ==
  /\ pc[p] = "get"
  /\ req[p].kind = "setCategory"
  /\ cat' = [cat EXCEPT ![p].existing_categories = categories]
  /\ pc' = [pc EXCEPT ![p] = "body"]
  /\ UNCHANGED <<now, jobs, nextId, channels, held, req, job, added, err, fired,
                 categories>>

\* an emoji of the command is part of the emoji string of another category
Used(p) ==
  \E c \in DOMAIN cat[p].existing_categories :
    /\ c # cat[p].category
    /\ \E i \in 1..Len(cat[p].emojis) :
         Substring(cat[p].emojis[i], cat[p].existing_categories[c])

\* redis.hmset(key, {category: value})
hmset(category, value) ==
  categories' = [c \in DOMAIN categories \cup {category} |->
                   IF c = category THEN value ELSE categories[c]]

\* setCategory that writes without looking at the other categories
SetCategoryBody_no_check(p) ==
  /\ pc[p] = "body"
  /\ req[p].kind = "setCategory"
  /\ hmset(cat[p].category, Join(cat[p].emojis, Space))
  /\ UNCHANGED err
  /\ release(p, req[p].eid)
  /\ pc' = [pc EXCEPT ![p] = "reply"]
  /\ UNCHANGED <<now, jobs, nextId, channels, req, job, added, fired, cat>>

\* setCategory whose lock stays taken when the with block raises
SetCategoryBody_leak_on_raise(p) ==
  /\ pc[p] = "body"
  /\ req[p].kind = "setCategory"
  /\ IF Used(p)
       THEN /\ err' = [err EXCEPT ![p] = "already_used"]
            /\ UNCHANGED <<categories, held>>
       ELSE /\ hmset(cat[p].category, Join(cat[p].emojis, Space))
            /\ release(p, req[p].eid)
            /\ UNCHANGED err
  /\ pc' = [pc EXCEPT ![p] = "reply"]
  /\ UNCHANGED <<now, jobs, nextId, channels, req, job, added, fired, cat>>

\* setCategory, lines 356-364, up to the end of the with block
SetCategoryBody(p) ==
  /\ pc[p] = "body"
  /\ req[p].kind = "setCategory"
  /\ IF Used(p)
       THEN \* ValueError: Emoji ... is already used in category ...
            /\ err' = [err EXCEPT ![p] = "already_used"]
            /\ UNCHANGED categories
       ELSE /\ hmset(cat[p].category, Join(cat[p].emojis, Space))
            /\ UNCHANGED err
  /\ release(p, req[p].eid)
  /\ pc' = [pc EXCEPT ![p] = "reply"]
  /\ UNCHANGED <<now, jobs, nextId, channels, req, job, added, fired, cat>>

\* what setCategory sends: the raised error through cog_command_error, or
\* line 366
SetCategoryReplyOf(p) ==
  IF err[p] # ""
    THEN [to |-> "ctx", text |-> err[p]]
    ELSE [to |-> "ctx", text |-> "set_category"]

\* setCategory sends SetCategoryReplyOf(p) and returns
SetCategoryReply(p) ==
  /\ pc[p] = "reply"
  /\ req[p].kind = "setCategory"
  /\ SetCategoryReplyOf(p).to = "ctx"
  /\ pc' = [pc EXCEPT ![p] = "idle"]
  /\ req' = [req EXCEPT ![p] = NoReq]
  /\ err' = [err EXCEPT ![p] = ""]
  /\ cat' = [cat EXCEPT ![p] = NoCat]
  /\ UNCHANGED <<now, jobs, nextId, channels, held, job, added, fired,
                 categories>>

\* ------------------------------------------------------- emoji statistics
\* str(n) of an int n >= 0, as redis stores it
RECURSIVE str_of(_)
str_of(n) ==
  IF n < Len(Digits) THEN <<Digits[n + 1]>>
  ELSE str_of(n \div Len(Digits)) \o <<Digits[(n % Len(Digits)) + 1]>>

\* f"{user.id}:{guild.id}"
get_key_from_context(m) == <<m[1], m[2]>>

\* redis.hgetall(key): the fields of the hash, every value a string; the
\* empty dict when there is no such key
hgetall(key) == [f \in DOMAIN stats[key] |-> PyStr(stats[key][f])]

\* d[field] = value on a dict
SetItem(d, field, value) ==
  [f \in DOMAIN d \cup {field} |-> IF f = field THEN value ELSE d[f]]

\* what redis stores for a value it is given
Encode(value) == IF value.t = "int" THEN str_of(value.v) ELSE value.v

\* int(x) of a dict value: a string read from redis or an int put there
IntOf(value) == IF value.t = "int" THEN value.v ELSE int(value.v)

\* redis.hset(key, field, value)
hset(key, field, value) ==
  [stats EXCEPT ![key] = SetItem(stats[key], field, Encode(value))]

\* redis.hmset(key, mapping)
hmset_mapping(key, mapping) ==
  [stats EXCEPT ![key] =
     [f \in DOMAIN stats[key] \cup DOMAIN mapping |->
        IF f \in DOMAIN mapping THEN Encode(mapping[f]) ELSE stats[key][f]]]

\* redis.hdel(key, field)
hdel(key, field) ==
  [stats EXCEPT ![key] = [f \in DOMAIN stats[key] \ {field} |-> stats[key][f]]]

\* redis.delete(key)
delete(key) == [stats EXCEPT ![key] = EmptyHash]

\* user_reacts.get("consent") == "1"
Consents(user_reacts) ==
  /\ "consent" \in DOMAIN user_reacts
  /\ user_reacts["consent"] = PyStr(<<"1">>)

\* findall(regexp, message.content)
findall(regexp, content) == SelectSeq(content, LAMBDA t : t \in regexp)

\* the loops of on_message, lines 55-59 and 63-67
RECURSIVE CountUses(_, _)
CountUses(user_reacts, emoji_list) ==
  IF emoji_list = <<>> THEN user_reacts
  ELSE LET emoji == Head(emoji_list) IN
    CountUses(
      SetItem(user_reacts, emoji,
              IF emoji \in DOMAIN user_reacts
                THEN PyInt(IntOf(user_reacts[emoji]) + 1)
                ELSE PyInt(1)),
      Tail(emoji_list))

\* the uses a dict records, all emojis together, and the bound on them
RECURSIVE TotalOver(_, _)
TotalOver(user_reacts, fields) ==
  IF fields = {} THEN 0
  ELSE LET f == CHOOSE x \in fields : TRUE IN
    IntOf(user_reacts[f]) + TotalOver(user_reacts, fields \ {f})

Total(user_reacts) ==
  TotalOver(user_reacts, DOMAIN user_reacts \ {"consent"})

Bounded(user_reacts) == Total(user_reacts) <= MaxUses

\* on_message, lines 48-69, for a Member's message in a text channel
Counted(key, content) ==
  LET user_reacts == hgetall(key) IN
    IF Consents(user_reacts)
      THEN CountUses(CountUses(user_reacts,
                               findall(unicode_emojis, content)),
                     findall(discord_emojis, content))
      ELSE user_reacts

CountMessage(key, content) ==
  /\ Bounded(Counted(key, content))
  /\ stats' = IF Consents(hgetall(key))
                THEN hmset_mapping(key, Counted(key, content))
                ELSE stats

\* on_message for a message that is not a command: by member m in a text
\* channel of m's guild, or (dm) by user m[1] in a direct message
on_message(m, dm, content) ==
  /\ IF dm THEN UNCHANGED stats
           ELSE CountMessage(get_key_from_context(m), content)
  /\ UNCHANGED inflight

\* StatsManager.get_guild_key / handle_message: the key the command works on
CommandKey(m, dm, idOrName) ==
  IF idOrName # NoGuild THEN <<m[1], idOrName>>
  ELSE IF ~dm THEN get_key_from_context(m)
  ELSE <<0, 0>>                      \* ValueError: You must provide a guild

\* process_commands whose revoke also deletes the counters
process_commands_revoke_deletes(m, dm, idOrName, command, content) ==
  /\ inflight = NoMessage
  /\ LET key == CommandKey(m, dm, idOrName) IN
       /\ stats' =
            IF key \notin StatMembers THEN stats
            ELSE IF command = "consent"
              THEN hset(key, "consent", PyStr(<<"1">>))
            ELSE IF command = "revoke"
              THEN [stats EXCEPT ![key] =
                      [f \in {"consent"} |-> <<"0">>]]
            ELSE IF command = "delete" THEN delete(key)
            ELSE stats
       /\ inflight' =
            IF command = "uses" \/ dm THEN NoMessage
            ELSE [command |-> command, key |-> get_key_from_context(m),
                  content |-> content]

\* on_message, lines 39-43, for a message that starts with ">":
\* bot.process_commands runs the command (consent line 208, delete line
\* 228, revoke line 248; stats and uses only read), which then awaits its
\* reply; ">uses" returns, a direct message is not counted, any other
\* message goes on to lines 45-69
process_commands(m, dm, idOrName, command, content) ==
  /\ inflight = NoMessage
  /\ LET key == CommandKey(m, dm, idOrName) IN
       /\ stats' =
            IF key \notin StatMembers THEN stats
            ELSE IF command = "consent"
              THEN hset(key, "consent", PyStr(<<"1">>))
            ELSE IF command = "revoke"
              THEN hset(key, "consent", PyStr(<<"0">>))
            ELSE IF command = "delete" THEN delete(key)
            ELSE stats
       /\ inflight' =
            IF command = "uses" \/ dm THEN NoMessage
            ELSE [command |-> command, key |-> get_key_from_context(m),
                  content |-> content]

\* on_message, lines 45-69, once process_commands has returned
on_message_rest ==
  /\ inflight # NoMessage
  /\ CountMessage(inflight.key, inflight.content)
  /\ inflight' = NoMessage

\* on_reaction_add that does not look at the consent flag
on_reaction_add_no_consent(m, emoji) ==
  /\ LET key == get_key_from_context(m)
         user_reacts == hgetall(key)
     IN
       /\ Total(user_reacts) < MaxUses
       /\ stats' = IF emoji \in DOMAIN user_reacts
                     THEN hset(key, emoji,
                               PyInt(IntOf(user_reacts[emoji]) + 1))
                     ELSE hset(key, emoji, PyInt(1))
  /\ UNCHANGED inflight

\* on_reaction_add by member m on a message in a text channel
on_reaction_add(m, emoji) ==
  /\ LET key == get_key_from_context(m)
         user_reacts == hgetall(key)
     IN
       /\ Consents(user_reacts) => Total(user_reacts) < MaxUses
       /\ stats' = IF Consents(user_reacts)
                     THEN IF emoji \in DOMAIN user_reacts
                            THEN hset(key, emoji,
                                      PyInt(IntOf(user_reacts[emoji]) + 1))
                            ELSE hset(key, emoji, PyInt(1))
                     ELSE stats
  /\ UNCHANGED inflight

\* on_reaction_remove that stores the count it reaches, 0 included
on_reaction_remove_stores_zero(m, emoji) ==
  /\ LET key == get_key_from_context(m)
         user_reacts == hgetall(key)
     IN
       stats' = IF Consents(user_reacts) /\ emoji \in DOMAIN user_reacts
                  THEN hset(key, emoji,
                            PyInt(IntOf(user_reacts[emoji]) - 1))
                  ELSE stats
  /\ UNCHANGED inflight

\* on_reaction_remove by member m
on_reaction_remove(m, emoji) ==
  /\ LET key == get_key_from_context(m)
         user_reacts == hgetall(key)
     IN
       stats' = IF Consents(user_reacts) /\ emoji \in DOMAIN user_reacts
                  THEN LET new_count == IntOf(user_reacts[emoji]) - 1 IN
                         IF new_count = 0
                           THEN hdel(key, emoji)
                           ELSE hset(key, emoji, PyInt(new_count))
                  ELSE stats
  /\ UNCHANGED inflight

\* ------------------------------------------------------------ environment
Tick ==
  /\ now < Horizon
  /\ now' = now + MinPollSeconds
  /\ UNCHANGED <<jobs, nextId, channels, held, pc, req, job, added, err, fired>>

\* the channel is deleted, or the bot loses sight of it
DeleteChannel ==
  /\ channels # {}
  /\ channels' = {}
  /\ UNCHANGED <<now, jobs, nextId, held, pc, req, job, added, err, fired>>

\* the poll message is deleted
DeleteMessage(m) ==
  /\ m \in 1..Len(msgs)
  /\ msgs[m].exists
  /\ msgs' = [msgs EXCEPT ![m].exists = FALSE]
  /\ UNCHANGED <<pollc, users, net>>

\* the user leaves: the bot no longer knows the id
ForgetUser(u) ==
  /\ u \in users
  /\ users' = users \ {u}
  /\ UNCHANGED <<pollvars, net>>

\* calls to Discord start to fail, and work again
NetDown ==
  /\ net
  /\ net' = FALSE
  /\ UNCHANGED <<pollvars, users>>

NetUp ==
  /\ ~net
  /\ net' = TRUE
  /\ UNCHANGED <<pollvars, users>>

\* ----------------------------------------------------------- specification
\* after start-up: no job, no command under way
InitCommands ==
  /\ now = 0
  /\ jobs = [j \in JobIds |-> NoJob]
  /\ nextId = 1
  /\ channels = {ChannelId}
  /\ held = {}
  /\ pc = [p \in Procs |-> "idle"]
  /\ req = [p \in Procs |-> NoReq]
  /\ job = [p \in Procs |-> NoJob]
  /\ added = [p \in Procs |-> FALSE]
  /\ err = [p \in Procs |-> ""]
  /\ fired = <<>>
  /\ cat = [p \in Procs |-> NoCat]
  /\ categories = EmptyHash
  /\ msgs = <<>>
  /\ pollc = NoPoll

\* BirthdayManager.__init__, on the start day `day`
InitBirthdays(day) ==
  /\ birthdays = <<>>
  /\ today = day
  /\ days = 0
  /\ fire = FALSE
  /\ lock = FALSE
  /\ ready = FALSE
  /\ scan = NoScan
  /\ refreshing = TRUE

InitEnv ==
  /\ users = Users
  /\ net = TRUE

\* redis holds no user hash, no message is being handled
InitStats ==
  /\ stats = [k \in StatMembers |-> EmptyHash]
  /\ inflight = NoMessage

Init ==
  /\ InitCommands
  /\ msg = NoMsg
  /\ result_msg = <<>>
  /\ InitEnv
  /\ InitBirthdays(FirstDay)
  /\ InitStats

\* The events and poll commands with the timing loop and its handlers.
Next ==
  \/ \E u \in Creators, time \in TimeInputs :
        schedule(u, time) /\ UNCHANGED <<catvars, pollvars, tallyvars, envvars, bdayvars, statvars>>
  \/ \E u \in Creators, seconds \in PollInputs :
        poll(u, seconds) /\ UNCHANGED <<catvars, pollc, tallyvars, envvars, bdayvars, statvars>>
  \/ \E p \in Procs, kind \in {"signup", "cancel"}, u \in Users, id \in JobIds :
        Issue(p, kind, u, id) /\ UNCHANGED <<catvars, pollvars, tallyvars, envvars, bdayvars, statvars>>
  \/ \E p \in Procs : Lock(p) /\ UNCHANGED <<catvars, pollvars, tallyvars, envvars, bdayvars, statvars>>
  \/ \E p \in Procs : LockFail(p) /\ UNCHANGED <<catvars, pollvars, tallyvars, envvars, bdayvars, statvars>>
  \/ \E p \in Procs : SignupGetJob(p) /\ UNCHANGED <<catvars, pollvars, tallyvars, envvars, bdayvars, statvars>>
  \/ \E p \in Procs : SignupBody(p) /\ UNCHANGED <<catvars, pollvars, tallyvars, envvars, bdayvars, statvars>>
  \/ \E p \in Procs : CancelBody(p) /\ UNCHANGED <<catvars, pollvars, tallyvars, envvars, bdayvars, statvars>>
  \/ \E p \in Procs : Reply(p) /\ UNCHANGED <<catvars, pollvars, tallyvars, envvars, bdayvars, statvars>>
  \/ process_jobs /\ UNCHANGED <<catvars, pollvars, tallyvars, envvars, bdayvars, statvars>>
  \/ \E i \in 1..Len(fired) : register_event(i) /\ UNCHANGED <<catvars, pollvars, tallyvars, envvars, bdayvars, statvars>>
  \/ \E i \in 1..Len(fired) : poll_result(i) /\ UNCHANGED <<catvars, pollvars, tallyvars, envvars, bdayvars, statvars>>
  \/ Tick /\ UNCHANGED <<catvars, pollvars, tallyvars, envvars, bdayvars, statvars>>
  \/ DeleteChannel /\ UNCHANGED <<catvars, pollvars, tallyvars, envvars, bdayvars, statvars>>

Spec == Init /\ [][Next]_vars

\* The commands that take a named lock, side by side: signup and cancel on
\* the jobs that schedule stored, setCategory on the category hash.
NextCmd ==
  \/ \E u \in Creators, time \in TimeInputs :
        schedule(u, time) /\ UNCHANGED <<catvars, pollvars, tallyvars, envvars, bdayvars, statvars>>
  \/ \E p \in Procs, kind \in {"signup", "cancel"}, u \in Users, id \in JobIds :
        Issue(p, kind, u, id) /\ UNCHANGED <<catvars, pollvars, tallyvars, envvars, bdayvars, statvars>>
  \/ \E p \in Procs, u \in Creators, category \in CategoryNames,
          emojis \in EmojiInputs :
        setCategory(p, u, category, emojis) /\ UNCHANGED <<pollvars, tallyvars, envvars, bdayvars, statvars>>
  \/ \E p \in Procs : Lock(p) /\ UNCHANGED <<catvars, pollvars, tallyvars, envvars, bdayvars, statvars>>
  \/ \E p \in Procs : LockFail(p) /\ UNCHANGED <<catvars, pollvars, tallyvars, envvars, bdayvars, statvars>>
  \/ \E p \in Procs : SignupGetJob(p) /\ UNCHANGED <<catvars, pollvars, tallyvars, envvars, bdayvars, statvars>>
  \/ \E p \in Procs : SignupBody(p) /\ UNCHANGED <<catvars, pollvars, tallyvars, envvars, bdayvars, statvars>>
  \/ \E p \in Procs : CancelBody(p) /\ UNCHANGED <<catvars, pollvars, tallyvars, envvars, bdayvars, statvars>>
  \/ \E p \in Procs : Reply(p) /\ UNCHANGED <<catvars, pollvars, tallyvars, envvars, bdayvars, statvars>>
  \/ \E p \in Procs : SetCategoryGet(p) /\ UNCHANGED <<pollvars, tallyvars, envvars, bdayvars, statvars>>
  \/ \E p \in Procs : SetCategoryBody(p) /\ UNCHANGED <<pollvars, tallyvars, envvars, bdayvars, statvars>>
  \/ \E p \in Procs : SetCategoryReply(p) /\ UNCHANGED <<pollvars, tallyvars, envvars, bdayvars, statvars>>

SpecCmd == Init /\ [][NextCmd]_vars

\* The >poll command statement by statement, with the clock.
NextPoll ==
  \/ \E u \in Creators, time \in TimingInputs, options \in OptionInputs :
        PollCheck(u, time, options) /\ UNCHANGED <<catvars, tallyvars, envvars, bdayvars, statvars>>
  \/ PollSend /\ UNCHANGED <<catvars, tallyvars, envvars, bdayvars, statvars>>
  \/ PollAddReaction /\ UNCHANGED <<catvars, tallyvars, envvars, bdayvars, statvars>>
  \/ PollAddJob /\ UNCHANGED <<catvars, tallyvars, envvars, bdayvars, statvars>>
  \/ PollReply /\ UNCHANGED <<catvars, tallyvars, envvars, bdayvars, statvars>>
  \/ Tick /\ UNCHANGED <<catvars, pollvars, tallyvars, envvars, bdayvars, statvars>>

SpecPoll == Init /\ [][NextPoll]_vars

\* poll_result's tally on every message of MsgInputs(n), n up to MaxOptions.
InitTally ==
  /\ InitCommands
  /\ \E n \in 1..MaxOptions : msg \in MsgInputs(n)
  /\ result_msg = <<>>
  /\ InitEnv
  /\ InitBirthdays(FirstDay)
  /\ InitStats

NextTally == PollTally

SpecTally == InitTally /\ [][NextTally]_vars

\* The birthday cog: the refresh loop, the cron job and its handler.
InitBday ==
  /\ InitCommands
  /\ msg = NoMsg
  /\ result_msg = <<>>
  /\ InitEnv
  /\ \E day \in StartDays : InitBirthdays(day)
  /\ InitStats

notBday == <<eventvars, catvars, pollvars, tallyvars, envvars, statvars>>

NextBday ==
  \/ \E data \in SheetInputs \cup BrokenSheets :
        refresh_birthdays(data) /\ UNCHANGED notBday
  \/ Midnight /\ UNCHANGED notBday
  \/ schedule_birthday /\ UNCHANGED notBday
  \/ BirthdayWait /\ UNCHANGED notBday
  \/ BotReady /\ UNCHANGED notBday

SpecBday == InitBday /\ [][NextBday]_vars

\* The birthday cog on an event loop that runs every coroutine that can
\* run: a dispatched scan starts, a scan whose channel resolves goes on.
\* Whether the channel ever resolves is not the program's to decide.
SpecBdayLive ==
  /\ InitBday
  /\ [][NextBday]_vars
  /\ WF_vars(schedule_birthday /\ UNCHANGED notBday)
  /\ WF_vars(BirthdayWait /\ UNCHANGED notBday)

\* The jobs when they fire: the timing loop with the event and poll jobs,
\* the birthday cron job on a list that is read and a channel that
\* resolves, and what can go wrong around the handlers.
InitFire ==
  /\ InitCommands
  /\ msg = NoMsg
  /\ result_msg = <<>>
  /\ InitEnv
  /\ birthdays = SortPeople(SheetRows)
  /\ today \in StartDays
  /\ days = 0
  /\ fire = FALSE
  /\ lock = FALSE
  /\ ready = TRUE
  /\ scan = NoScan
  /\ refreshing = TRUE
  /\ InitStats

notFired == <<catvars, pollvars, tallyvars, envvars, bdayvars, statvars>>
notEnv == <<eventvars, catvars, tallyvars, bdayvars, statvars>>

NextFire ==
  \/ \E u \in Creators, time \in TimeInputs :
        schedule(u, time) /\ UNCHANGED notFired
  \/ \E u \in Creators, seconds \in PollInputs :
        poll(u, seconds)
          /\ UNCHANGED <<catvars, pollc, tallyvars, envvars, bdayvars, statvars>>
  \/ process_jobs /\ UNCHANGED notFired
  \/ \E i \in 1..Len(fired) : register_event(i) /\ UNCHANGED notFired
  \/ \E i \in 1..Len(fired) : poll_result(i) /\ UNCHANGED notFired
  \/ Tick /\ UNCHANGED notFired
  \/ DeleteChannel /\ UNCHANGED notFired
  \/ \E m \in 1..Len(msgs) : DeleteMessage(m) /\ UNCHANGED notEnv
  \/ \E u \in Creators : ForgetUser(u) /\ UNCHANGED notEnv
  \/ NetDown /\ UNCHANGED notEnv
  \/ NetUp /\ UNCHANGED notEnv
  \/ Midnight /\ UNCHANGED notBday
  \/ schedule_birthday /\ UNCHANGED notBday

SpecFire == InitFire /\ [][NextFire]_vars

\* The emoji statistics: the stats commands with the message and reaction
\* events of the members.
notStats == <<eventvars, catvars, pollvars, tallyvars, envvars, bdayvars>>

NextStats ==
  \/ \E m \in StatMembers, dm \in BOOLEAN, content \in Contents :
        on_message(m, dm, content) /\ UNCHANGED notStats
  \/ \E m \in StatMembers, dm \in BOOLEAN,
          idOrName \in {NoGuild} \cup {k[2] : k \in StatMembers},
          command \in StatCommands, content \in CommandContents :
        /\ idOrName # NoGuild => <<m[1], idOrName>> \in StatMembers
        /\ process_commands(m, dm, idOrName, command, content)
        /\ UNCHANGED notStats
  \/ on_message_rest /\ UNCHANGED notStats
  \/ \E m \in StatMembers, emoji \in unicode_emojis \cup discord_emojis :
        on_reaction_add(m, emoji) /\ UNCHANGED notStats
  \/ \E m \in StatMembers, emoji \in unicode_emojis \cup discord_emojis :
        on_reaction_remove(m, emoji) /\ UNCHANGED notStats

SpecStats == Init /\ [][NextStats]_vars

\* The lock taken by signup, cancel and setCategory, with the scheduling of
\* the commands: a command that has been started is run on until it has
\* answered, whatever the other commands do.
Run(p) ==
  \/ /\ \/ Lock(p) \/ LockFail(p)
        \/ SignupGetJob(p) \/ SignupBody(p) \/ CancelBody(p) \/ Reply(p)
     /\ UNCHANGED <<catvars, pollvars, tallyvars, envvars, bdayvars, statvars>>
  \/ /\ SetCategoryGet(p) \/ SetCategoryBody(p) \/ SetCategoryReply(p)
     /\ UNCHANGED <<pollvars, tallyvars, envvars, bdayvars, statvars>>

NextLock ==
  \/ \E u \in Creators :
        schedule(u, MinPollSeconds) /\ UNCHANGED <<catvars, pollvars, tallyvars, envvars, bdayvars, statvars>>
  \/ \E p \in Procs, kind \in {"signup", "cancel"}, u \in ChannelMembers,
          id \in LockedIds :
        Issue(p, kind, u, id) /\ UNCHANGED <<catvars, pollvars, tallyvars, envvars, bdayvars, statvars>>
  \/ \E p \in Procs, u \in Creators, category \in CategoryNames,
          emojis \in LockedEmojis :
        setCategory(p, u, category, emojis) /\ UNCHANGED <<pollvars, tallyvars, envvars, bdayvars, statvars>>
  \/ \E p \in Procs : Lock(p) /\ UNCHANGED <<catvars, pollvars, tallyvars, envvars, bdayvars, statvars>>
  \/ \E p \in Procs : LockFail(p) /\ UNCHANGED <<catvars, pollvars, tallyvars, envvars, bdayvars, statvars>>
  \/ \E p \in Procs : SignupGetJob(p) /\ UNCHANGED <<catvars, pollvars, tallyvars, envvars, bdayvars, statvars>>
  \/ \E p \in Procs : SignupBody(p) /\ UNCHANGED <<catvars, pollvars, tallyvars, envvars, bdayvars, statvars>>
  \/ \E p \in Procs : CancelBody(p) /\ UNCHANGED <<catvars, pollvars, tallyvars, envvars, bdayvars, statvars>>
  \/ \E p \in Procs : Reply(p) /\ UNCHANGED <<catvars, pollvars, tallyvars, envvars, bdayvars, statvars>>
  \/ \E p \in Procs : SetCategoryGet(p) /\ UNCHANGED <<pollvars, tallyvars, envvars, bdayvars, statvars>>
  \/ \E p \in Procs : SetCategoryBody(p) /\ UNCHANGED <<pollvars, tallyvars, envvars, bdayvars, statvars>>
  \/ \E p \in Procs : SetCategoryReply(p) /\ UNCHANGED <<pollvars, tallyvars, envvars, bdayvars, statvars>>

SpecLock == Init /\ [][NextLock]_vars /\ \A p \in Procs : WF_vars(Run(p))

\* The commands that create jobs, with what they are given: schedule, and
\* >poll statement by statement, with the clock.
NextValid ==
  \/ \E u \in Creators, time \in TimeInputs :
        schedule(u, time) /\ UNCHANGED <<catvars, pollvars, tallyvars, envvars, bdayvars, statvars>>
  \/ \E u \in Creators, time \in TimingInputs, options \in OptionInputs :
        PollCheck(u, time, options) /\ UNCHANGED <<catvars, tallyvars, envvars, bdayvars, statvars>>
  \/ PollSend /\ UNCHANGED <<catvars, tallyvars, envvars, bdayvars, statvars>>
  \/ PollAddReaction /\ UNCHANGED <<catvars, tallyvars, envvars, bdayvars, statvars>>
  \/ PollAddJob /\ UNCHANGED <<catvars, tallyvars, envvars, bdayvars, statvars>>
  \/ PollReply /\ UNCHANGED <<catvars, tallyvars, envvars, bdayvars, statvars>>
  \/ Tick /\ UNCHANGED <<catvars, pollvars, tallyvars, envvars, bdayvars, statvars>>

SpecValid == Init /\ [][NextValid]_vars

\* =================================================================== claims
InFired(j) == \E i \in 1..Len(fired) : fired[i].id = j

IsEvent(jr) == jr # NoJob /\ jr.func = "register_event"

\* the participant list of an event job: register_event's `members`
Members(jr) == jr.args[Len(jr.args)].v

\* the creator of an event job as schedule stored it (author_id)
Creator(jr) == Arg(jr.args, 3).v

\* p has left the with block of a signup / cancel and is about to answer
SignupDone(p) ==
  /\ pc[p] = "reply"
  /\ req[p].kind = "signup"
  /\ err[p] # "LockError"

CancelDone(p) ==
  /\ pc[p] = "reply"
  /\ req[p].kind = "cancel"
  /\ err[p] # "LockError"

\* C1: when a signup by a participant who sees the channel has run on a job
\* that is still pending, the job's participant list holds that participant,
\* starts with the creator and has no duplicates (no signup is lost).
C1_NoLostSignup ==
  \A p \in Procs :
    ( /\ SignupDone(p)
      /\ IsEvent(job[p])
      /\ req[p].who \in ChannelMembers
      /\ err[p] \notin {"does_not_exist", "JobLookupError"}
      /\ jobs[req[p].eid] # NoJob )
    => LET m == Members(jobs[req[p].eid]) IN
         /\ Contains(m, Mention(req[p].who))
         /\ NoDup(m)
         /\ m[1] = Mention(Creator(job[p]))

\* C2: a lock key has at most one holder; a command is between its lookup and
\* the end of its with block exactly while it holds the lock of its job id;
\* a job's args change, or a job is removed by cancel, only in a step of the
\* holder of that job's lock, the step that ends this hold.
LockInv ==
  /\ \A h1, h2 \in held : h1[2] = h2[2] => h1 = h2
  /\ \A p \in Procs : pc[p] \in {"get", "body"} <=> <<p, req[p].eid>> \in held
  /\ \A h \in held : req[h[1]].eid = h[2]

WriteUnderLock ==
  \A j \in JobIds :
    ( /\ jobs[j] # NoJob
      /\ \/ jobs'[j] # NoJob /\ jobs'[j].args # jobs[j].args
         \/ jobs'[j] = NoJob /\ ~InFired(j)' )
    => \E p \in Procs :
         /\ <<p, j>> \in held
         /\ <<p, j>> \notin held'
         /\ pc[p] \in {"get", "body"}
         /\ pc'[p] = "reply"

C2_LockedReadModifyWrite == [](LockInv) /\ [][WriteUnderLock]_vars

C2_Witness ==
  \E p, q \in Procs :
    /\ p # q
    /\ pc[p] = "body"
    /\ pc[q] = "lock"
    /\ req[q].eid = req[p].eid

\* C3: once a cancel has run on an existing pending event job, the job is
\* gone if and only if the requester is its creator; for anyone else the job
\* is kept with the same args (or has fired meanwhile) and the answer is an
\* error, not a cancellation notice.
C3_CancelIffCreator ==
  \A p \in Procs :
    (CancelDone(p) /\ IsEvent(job[p]))
    => IF req[p].who = Creator(job[p])
         THEN jobs[req[p].eid] = NoJob /\ ~InFired(req[p].eid)
         ELSE /\ jobs[req[p].eid] = job[p] \/ InFired(req[p].eid)
              /\ ReplyOf(p) = [to |-> "ctx", text |-> "could_not_find"]

\* C4: when the creator's cancel races with the firing of the job, a job whose
\* handler was invoked has its cancel answered with job-not-found, and a
\* cancel that announces the cancellation belongs to a job that never fired.
C4_CancelXorFire ==
  \A p \in Procs :
    (CancelDone(p) /\ IsEvent(job[p]) /\ req[p].who = Creator(job[p]))
    => /\ InFired(req[p].eid) => ReplyOf(p).text = "could_not_find"
       /\ ReplyOf(p).text = "cancelled" => ~InFired(req[p].eid)

\* C5: a one-shot job is dispatched at most once, and it has left the pending
\* set when its handler is invoked or running.
C5_AtMostOnce ==
  \A i, k \in 1..Len(fired) :
    /\ fired[i].id = fired[k].id => i = k
    /\ jobs[fired[i].id] = NoJob

C5_Witness ==
  \E i \in 1..Len(fired) :
    /\ fired[i].result = "pending"
    /\ now > fired[i].run_date

\* the time a dispatched job was scheduled for: the time given to schedule,
\* or the poll's creation time plus its duration
ScheduledFor(e) ==
  IF e.func = "register_event" THEN Arg(e.args, 2).v ELSE e.run_date

\* C6: the timing loop dispatches a job only when the clock has reached the
\* time it was scheduled for, in the order of these times, and leaves no job
\* pending that was scheduled for an earlier time than one it dispatches.
FiresInOrder ==
  \A i \in (Len(fired) + 1)..Len(fired') :
    /\ ScheduledFor(fired'[i]) <= now
    /\ \A k \in (Len(fired) + 1)..Len(fired') :
         i < k => ScheduledFor(fired'[i]) <= ScheduledFor(fired'[k])
    /\ \A j \in JobIds :
         (jobs[j] # NoJob /\ jobs'[j] # NoJob)
         => jobs[j].run_date > ScheduledFor(fired'[i])

C6_NotBeforeAndInOrder == [][FiresInOrder]_vars

C6_Witness ==
  /\ Len(fired) = 2
  /\ fired[1].run_date < fired[2].run_date

Gone(j) == jobs[j] = NoJob

CancelOfGoneJob ==
  \A p \in Procs :
    ( /\ req[p].kind = "cancel"
      /\ Gone(req[p].eid)
      /\ pc'[p] # pc[p] )
    => /\ UNCHANGED <<jobs, fired, channels>>
       /\ pc[p] = "get" => err'[p] = "could_not_find" /\ job'[p] = NoJob
       /\ (pc[p] = "reply" /\ job[p] = NoJob /\ err[p] # "LockError")
            => ReplyOf(p) = [to |-> "ctx", text |-> "could_not_find"]

C8_LateCancelIsNoOp == [][CancelOfGoneJob]_vars

C8_Witness ==
  \E p \in Procs, i \in 1..Len(fired) :
    /\ CancelDone(p)
    /\ fired[i].id = req[p].eid
    /\ fired[i].func = "register_event"
    /\ req[p].who = Arg(fired[i].args, 3).v
    /\ job[p] = NoJob
    /\ err[p] = "could_not_find"

\* C9: a signup by somebody who already is in the job's participant list
\* leaves the job as it is and answers the requester, not the channel, with
\* already-signed-up.
C9_SignupIdempotent ==
  \A p \in Procs :
    ( /\ SignupDone(p)
      /\ IsEvent(job[p])
      /\ err[p] # "does_not_exist"
      /\ Contains(Members(job[p]), Mention(req[p].who)) )
    => /\ ReplyOf(p) = [to |-> "author", text |-> "already_signed_up"]
       /\ jobs[req[p].eid] \in {job[p], NoJob}

\* C10: every pending event job has a participant list without duplicates
\* whose first element is the creator who scheduled it, and no step changes
\* the first element.
MembersWellFormed ==
  \A j \in JobIds :
    IsEvent(jobs[j])
    => LET m == Members(jobs[j]) IN
         /\ Len(m) >= 1
         /\ NoDup(m)
         /\ Len(jobs[j].args) = 5 => m[1] = Mention(Creator(jobs[j]))

CreatorStaysFirst ==
  \A j \in JobIds :
    (IsEvent(jobs[j]) /\ IsEvent(jobs'[j]))
    => Members(jobs'[j])[1] = Members(jobs[j])[1]

C10_CreatorFirstNoDuplicates ==
  [](MembersWellFormed) /\ [][CreatorStaysFirst]_vars

C10_Witness ==
  \E p \in Procs :
    /\ SignupDone(p)
    /\ IsEvent(job[p])
    /\ req[p].who \in ChannelMembers
    /\ req[p].who # Creator(job[p])
    /\ err[p] # "does_not_exist"
    /\ jobs[req[p].eid] = job[p]

\* ------------------------------------------------------------------------
\* C11: the named lock of signup, cancel and setCategory is held only
\* inside the with block; every step that leaves the block, by return or by
\* a raised error, leaves the key free, so that another command can take it.
InCritical(p) == pc[p] \in {"get", "body"}

NoLockOutsideCritical ==
  \A h \in held : InCritical(h[1]) /\ req[h[1]].eid = h[2]

ExitFreesKey ==
  \A p \in Procs :
    (InCritical(p) /\ pc'[p] \notin {"get", "body"}) =>
       ~(\E h \in held' : h[2] = req[p].eid)

C11_ReleasedOnEveryExit ==
  [](NoLockOutsideCritical) /\ [][ExitFreesKey]_vars

\* setCategory has raised inside its with block and another command holds
\* the same key
C11_Witness ==
  \E p, q \in Procs :
    /\ pc[p] = "reply"
    /\ err[p] = "already_used"
    /\ InCritical(q)
    /\ <<q, req[p].eid>> \in held

\* ------------------------------------------------------------------------
\* C19: a signup whose job id has no job, or whose requester is not a member
\* of the job's channel (or whose channel is gone), raises the does-not-exist
\* error, which goes back to the requester through ctx; it changes no job
\* and is not followed by the sign-up notice in the channel.
SignupOfMissing(p) ==
  /\ req[p].kind = "signup"
  /\ pc'[p] = "reply"
  /\ \/ pc[p] = "get" /\ get_job(req[p].eid) = NoJob
     \/ /\ pc[p] = "body"
        /\ \/ ~get_channel(Arg(job[p].args, 0))
           \/ req[p].who \notin ChannelMembers

SignupOfMissingRaises ==
  \A p \in Procs : SignupOfMissing(p) =>
    /\ err'[p] = "does_not_exist"
    /\ jobs' = jobs
    /\ added'[p] = FALSE

DoesNotExistGoesToCtx ==
  \A p \in Procs :
    (pc[p] = "reply" /\ req[p].kind = "signup" /\ err[p] = "does_not_exist")
      => ReplyOf(p) = [to |-> "ctx", text |-> "does_not_exist"]

C19_SignupNotFound ==
  [](DoesNotExistGoesToCtx) /\ [][SignupOfMissingRaises]_vars

\* one signup by a user outside the channel on a stored job, another one on
\* the id of a job that has fired
C19_Witness ==
  \E p, q \in Procs :
    /\ p # q
    /\ SignupDone(p) /\ err[p] = "does_not_exist"
    /\ req[p].who \notin ChannelMembers /\ jobs[req[p].eid] # NoJob
    /\ SignupDone(q) /\ err[q] = "does_not_exist"
    /\ InFired(req[q].eid)

\* ------------------------------------------------------------------------
\* C20: no emoji is listed in two categories of the guild, and a setCategory
\* naming an emoji that another category lists raises and leaves the hash
\* as it was.
Listed(e, s) == Substring(Space \o e \o Space, Space \o s \o Space)

InCategory(e, c) == c \in DOMAIN categories /\ Listed(e, categories[c])

OneCategoryPerEmoji ==
  \A e \in Emojis : \A c1, c2 \in DOMAIN categories :
    (InCategory(e, c1) /\ InCategory(e, c2)) => c1 = c2

NamesUsedEmoji(p) ==
  \E c \in DOMAIN categories \ {cat[p].category} :
    \E i \in 1..Len(cat[p].emojis) : InCategory(cat[p].emojis[i], c)

RejectsUsedEmoji ==
  \A p \in Procs :
    (/\ pc[p] = "body" /\ req[p].kind = "setCategory"
     /\ pc'[p] = "reply" /\ NamesUsedEmoji(p))
      => (err'[p] = "already_used" /\ categories' = categories)

C20_OneCategoryPerEmoji ==
  [](OneCategoryPerEmoji) /\ [][RejectsUsedEmoji]_vars

\* both categories are set and a setCategory has just been refused
C20_Witness ==
  /\ Cardinality(DOMAIN categories) = Cardinality(CategoryNames)
  /\ \E c \in DOMAIN categories : categories[c] # <<>>
  /\ \E p \in Procs : pc[p] = "reply" /\ err[p] = "already_used"

\* ------------------------------------------------------------------------
\* C12: a >poll whose duration string parses to less than 30 seconds ends
\* in the error reply straight from its checks: the step that rejects it
\* adds no job and sends no message, and a command that has reached the
\* sending of the poll message or of a reaction has a duration of 30 s or
\* more.
TooShort(time) == ~NotATime(time) /\ Seconds(time) < MinPollSeconds

ShortPollRejected ==
  (pollc.pc = "idle" /\ pollc'.pc # "idle" /\ TooShort(pollc'.time)) =>
     /\ pollc'.pc = "reply"
     /\ pollc'.err # ""
     /\ jobs' = jobs
     /\ msgs' = msgs

NoCallForShortPoll ==
  /\ pollc.pc \in {"send", "react"} => ~TooShort(pollc.time)
  /\ (pollc.pc = "reply" /\ TooShort(pollc.time)) => pollc.message = 0

C12_ShortPollRejectedFirst ==
  [](NoCallForShortPoll) /\ [][ShortPollRejected]_vars

\* a >poll with options and a duration under 30 s has been rejected
C12_Witness ==
  /\ pollc.pc = "reply"
  /\ pollc.options >= 1
  /\ TooShort(pollc.time)
  /\ Seconds(pollc.time) > 0

\* ------------------------------------------------------------------------
\* the votes of option i: the users' reactions, without the bot's own
VotesOf(i) ==
  LET r == CHOOSE r \in {msg.reactions[k] : k \in 1..Len(msg.reactions)} :
             r.emoji = i - 1
  IN r.count - 1

OptionIndexes == 1..Len(msg.options)

BestVotes ==
  CHOOSE v \in {VotesOf(i) : i \in OptionIndexes} :
    \A i \in OptionIndexes : VotesOf(i) <= v

Winners == {i \in OptionIndexes : VotesOf(i) = BestVotes}

\* the counts of the reactions that stand for no option
OffListCounts ==
  {msg.reactions[k].count : k \in {k \in 1..Len(msg.reactions) :
                               msg.reactions[k].emoji + 1 \notin OptionIndexes}}

\* where the message names the winner or the tie
VerdictAt ==
  CHOOSE k \in 1..Len(result_msg) : result_msg[k].part \in {"wins", "tie"}

Resolved == Len(result_msg) > 0

\* C13: the result message names as winners exactly the options with the
\* highest vote count, as a win for one and a tie for several, with that
\* count; every other option has one line with its own count, and the
\* lines come in non-increasing order of count.
C13_WinnersAreTheMaxima ==
  Resolved =>
    LET v == result_msg[VerdictAt]
        lines == VerdictAt + 1 .. Len(result_msg)
    IN /\ {v.names[k] : k \in 1..Len(v.names)}
            = {msg.options[i] : i \in Winners}
       /\ Len(v.names) = Cardinality(Winners)
       /\ v.count = BestVotes
       /\ v.part = IF Cardinality(Winners) > 1 THEN "tie" ELSE "wins"
       /\ \A k \in lines : result_msg[k].part = "line"
       /\ Cardinality(lines) = Len(msg.options) - Cardinality(Winners)
       /\ \A i \in OptionIndexes \ Winners : \E k \in lines :
            result_msg[k] = Part("line", <<msg.options[i]>>, VotesOf(i))
       /\ \A k1, k2 \in lines :
            k1 < k2 => result_msg[k1].count >= result_msg[k2].count

\* a tie of two options above a third one has been resolved
C13_Witness ==
  /\ Resolved
  /\ Cardinality(Winners) > 1
  /\ Cardinality(Winners) < Len(msg.options)
  /\ BestVotes > 1

\* C14: the advisory comes right after the header exactly when some
\* off-list reaction has a higher count than the best option has votes;
\* the winner or tie and the lines of the other options follow it.
C14_AdvisoryIffOffListLeads ==
  Resolved =>
    /\ (result_msg[VerdictAt - 1].part = "advisory")
         <=> (\E c \in OffListCounts : c > BestVotes)
    /\ VerdictAt <= Len(result_msg)
    /\ Len(result_msg) - VerdictAt
         = Len(msg.options) - Len(result_msg[VerdictAt].names)
    /\ \A k \in 1..Len(result_msg) :
         result_msg[k].part = "advisory" =>
           /\ k + 1 = VerdictAt
           /\ result_msg[k - 1].part = "header"
           /\ \A c \in OffListCounts : c <= result_msg[k].count

\* the advisory is shown above a win with other options behind it
C14_Witness ==
  /\ Resolved
  /\ result_msg[VerdictAt - 1].part = "advisory"
  /\ result_msg[VerdictAt].part = "wins"
  /\ Len(result_msg) > VerdictAt

\* ------------------------------------------------------------------------
\* C15: a run of the birthday scan sends at most one message; if people of
\* the list have their birthday on the day of the run it sends one message
\* that names each of them, with the years from the person's own birth year
\* to the year of the run as the age; if nobody has, it sends nothing.
ScanEnds == scan'.pc = "idle" /\ scan' # scan

OneCombinedMessage ==
  LET people == DueOn(scan'.day)
  IN /\ Len(scan'.sent) <= 1
     /\ Len(people) = 0 => Len(scan'.sent) = 0
     /\ Len(people) > 0 =>
          /\ Len(scan'.sent) = 1
          /\ scan'.sent[1].names = [i \in 1..Len(people) |-> people[i].name]
          /\ scan'.sent[1].ages =
               [i \in 1..Len(people) |->
                  <<people[i].name, scan'.day.year - people[i].date.year>>]

C15_OneCombinedMessage == [][ScanEnds => OneCombinedMessage]_vars

\* ------------------------------------------------------------------------
\* the handler of dispatch entry i runs in this step
Handles(i, func) ==
  /\ i \in 1..Len(fired)
  /\ fired[i].func = func
  /\ fired[i].result = "pending"
  /\ fired'[i].result # "pending"

\* C16: whatever raises inside register_event, poll_result or
\* schedule_birthday is caught there and printed: no run ends with an
\* exception leaving the handler; a handler run changes no job and no other
\* dispatch entry; every dispatched job that has not run can still run, the
\* timing loop still dispatches what is due, and the cron job is dispatched
\* at the next midnight after a run that failed.
NothingRaised ==
  /\ \A i \in 1..Len(fired) : fired[i].result # "raised"
  /\ scan.result # "raised"

OthersCanStillRun ==
  /\ \A i \in 1..Len(fired) :
       fired[i].result = "pending" =>
         ENABLED (register_event(i) \/ poll_result(i))
  /\ Due # {} => ENABLED process_jobs
  /\ (fire /\ ~lock) => ENABLED schedule_birthday

HandlerRunIsLocal ==
  /\ \A i \in 1..Len(fired) :
       (fired[i].result = "pending" /\ fired'[i].result # "pending") =>
         /\ jobs' = jobs
         /\ Len(fired') = Len(fired)
         /\ \A k \in 1..Len(fired) : k # i => fired'[k] = fired[k]
         /\ UNCHANGED bdayvars
  /\ (fire /\ ~fire') => UNCHANGED <<jobs, fired, today, days>>
  /\ (days' # days /\ scan.pc = "idle") => fire'

SentToChannel(r) == r \in {"announced", "announce_failed"}

\* the notice was sent to the creator (the send may have raised)
SentToCreator(r) == r \in {"author_notified", "notify_failed"}

NoRetry(i) ==
  /\ jobs' = jobs
  /\ jobs[fired[i].id] = NoJob
  /\ Len(fired') = Len(fired)

\* C17 as stated: an event job that fires with its channel gone sends no
\* announcement, sends the failure notice to its creator and is not
\* scheduled again; with the channel there it sends the one announcement
\* and nothing to the creator.
EventFiresAsStated ==
  \A i \in 1..Len(fired) : Handles(i, "register_event") =>
    /\ NoRetry(i)
    /\ IF get_channel(Arg(fired[i].args, 0))
         THEN SentToChannel(fired'[i].result)
         ELSE SentToCreator(fired'[i].result)

C17_ChannelGoneNotifiesCreator == [][EventFiresAsStated]_vars

\* C17, amended: ... with its channel gone it sends no announcement and is
\* not scheduled again; it sends the failure notice to its creator if
\* bot.get_user still resolves the creator, and sends nothing at all if not;
\* with the channel there it sends the one announcement and nothing to the
\* creator.
EventFiresAmended ==
  \A i \in 1..Len(fired) : Handles(i, "register_event") =>
    /\ NoRetry(i)
    /\ IF get_channel(Arg(fired[i].args, 0))
         THEN SentToChannel(fired'[i].result)
         ELSE IF get_user(PyInt(Creator(fired[i])))
           THEN SentToCreator(fired'[i].result)
           ELSE fired'[i].result = "nobody_notified"

C17_ChannelGoneNotifiesKnownCreator == [][EventFiresAmended]_vars

\* one event fired with its channel gone and its creator known, another one
\* after the creator had left
C17_Witness ==
  \E i, k \in 1..Len(fired) :
    /\ fired[i].func = "register_event"
    /\ fired[i].result = "author_notified"
    /\ fired[k].func = "register_event"
    /\ fired[k].result = "nobody_notified"

\* ------------------------------------------------------------------------
\* the poll's message is still there
MessageThere(msg_id) == msg_id.v \in 1..Len(msgs) /\ msgs[msg_id.v].exists

\* C18: a poll job that fires when its channel or its message is gone
\* sends the could-not-deliver notice to the poll's creator and sends no
\* result message.
PollFiresUndeliverable ==
  \A i \in 1..Len(fired) :
    (/\ Handles(i, "poll_result")
     /\ \/ ~get_channel(Arg(fired[i].args, 1))
        \/ ~MessageThere(Arg(fired[i].args, 2)))
      => SentToCreator(fired'[i].result)

C18_UndeliverablePollNotifiesCreator == [][PollFiresUndeliverable]_vars

\* ------------------------------------------------------------------------
\* the consent flag of a pair ("" when the hash has none) and its counters
Flag(k) == IF "consent" \in DOMAIN stats[k] THEN stats[k]["consent"] ELSE <<>>

CountersOf(k) == [f \in DOMAIN stats[k] \ {"consent"} |-> stats[k][f]]

\* the step is the counting of a message, or a reaction event
EventStep ==
  \/ \E m \in StatMembers, dm \in BOOLEAN, content \in Contents :
        on_message(m, dm, content)
  \/ on_message_rest
  \/ \E m \in StatMembers, emoji \in unicode_emojis \cup discord_emojis :
        on_reaction_add(m, emoji) \/ on_reaction_remove(m, emoji)

NeverConsentedIsEmpty ==
  \A k \in StatMembers : Flag(k) = <<>> => stats[k] = EmptyHash

NoConsentNoChange ==
  \A k \in StatMembers :
    (Flag(k) # <<"1">> /\ stats'[k] # stats[k]) => ~EventStep

CountersChangeUnderConsent ==
  \A k \in StatMembers :
    (CountersOf(k)' # CountersOf(k) /\ Flag(k) # <<"1">>)
      => stats'[k] = EmptyHash

\* C21: a pair without a consent flag has nothing stored; a message or a
\* reaction event changes nothing stored for a pair whose flag is not "1";
\* the counters of such a pair change in no step but the delete that
\* removes the pair's hash.
C21_CountersOnlyUnderConsent ==
  [](NeverConsentedIsEmpty)
    /\ [][NoConsentNoChange /\ CountersChangeUnderConsent]_vars

\* a message with emojis of a member who revoked, with counters stored, is
\* about to be counted
C21_Witness ==
  /\ inflight # NoMessage
  /\ Flag(inflight.key) = <<"0">>
  /\ CountersOf(inflight.key) # EmptyHash
  /\ findall(unicode_emojis \cup discord_emojis, inflight.content) # <<>>

\* ------------------------------------------------------------------------
\* the step is a revoke command on pair k
RevokeStep(k) ==
  inflight = NoMessage /\ inflight'.command \in {"", "revoke"} /\
  \E m \in StatMembers, dm \in BOOLEAN,
     idOrName \in {NoGuild} \cup {g[2] : g \in StatMembers},
     content \in CommandContents :
    /\ CommandKey(m, dm, idOrName) = k
    /\ process_commands(m, dm, idOrName, "revoke", content)

RevokeChangesFlagOnly ==
  \A k \in StatMembers :
    ~ ( /\ Flag(k)' = <<"0">>
        /\ CountersOf(k)' = CountersOf(k)
        /\ \A o \in StatMembers \ {k} : stats'[o] = stats[o] )
      => ~RevokeStep(k)

RevokeMessageNotCounted ==
  (on_message_rest /\ inflight.command = "revoke"
     /\ Flag(inflight.key) # <<"1">>)
    => stats' = stats

\* C22: a revoke command sets the consent flag of its pair to "0", keeps
\* every counter of the pair and leaves every other pair's hash as it is;
\* the rest of on_message for the revoke message stores nothing while the
\* flag is not "1".
C22_RevokeChangesFlagOnly ==
  [][RevokeChangesFlagOnly /\ RevokeMessageNotCounted]_vars

\* a revoke in a text channel has run on a pair with a counter at 2
C22_Witness ==
  /\ inflight.command = "revoke"
  /\ Flag(inflight.key) = <<"0">>
  /\ \E f \in DOMAIN CountersOf(inflight.key) :
       CountersOf(inflight.key)[f] = str_of(2)

\* ------------------------------------------------------------------------
\* C23: a command that waits for a lock gets past the wait, either into its
\* critical section or out with the lock error, and every command that was
\* started answers and returns; a command fails with the lock error only
\* when another command holds its key.
WaitEnds == \A p \in Procs : (pc[p] = "lock") ~> (pc[p] \in {"get", "reply"})

CommandEnds == \A p \in Procs : (pc[p] # "idle") ~> (pc[p] = "idle")

TimeoutOnlyWhenHeld ==
  \A p \in Procs :
    (pc[p] = "lock" /\ pc'[p] = "reply")
      => (err'[p] = "LockError"
          /\ \E q \in Procs \ {p} : <<q, req[p].eid>> \in held)

C23_LockNeverBlocksForever ==
  WaitEnds /\ CommandEnds /\ [][TimeoutOnlyWhenHeld]_vars

\* a command has run into the lock error while another holds the key
C23_Witness ==
  \E p, q \in Procs :
    /\ p # q
    /\ pc[p] = "reply"
    /\ err[p] = "LockError"
    /\ <<q, req[p].eid>> \in held

\* ------------------------------------------------------------------------
\* C24: the cron job of the birthday scan stays in place when it fires:
\* every local midnight dispatches one run of schedule_birthday, and a
\* dispatched run starts before the next midnight, on that day.
EveryMidnightFires == (days' # days) => (~fire /\ fire')

OneRunPerFiring ==
  (fire /\ ~fire') => (days' = days /\ scan'.day = today)

C24_FiresOncePerDay == [][EveryMidnightFires /\ OneRunPerFiring]_vars

\* ------------------------------------------------------------------------
\* C25: a schedule command whose time does not parse or lies in the past
\* answers with the error and adds no job; a >poll with no option, with more
\* options than emojis_order has, or with a duration string that is not a
\* time (or is under 30 s) ends in the error reply from its checks, and
\* neither the checks nor the reply add a job or send a message.
InvalidSchedule(time) == time = NoDate \/ time < now

ScheduleRejected ==
  \A u \in Creators, time \in TimeInputs :
    (InvalidSchedule(time) /\ schedule(u, time)) =>
       /\ jobs' = jobs
       /\ nextId' = nextId
       /\ ScheduleReplyOf(time).text \in {"could_not_parse", "in_the_past"}

InvalidPoll(time, options) ==
  \/ options < 1
  \/ options > NumEmojis
  \/ NotATime(time)
  \/ Seconds(time) < MinPollSeconds

PollRejected ==
  /\ (pollc.pc = "idle" /\ pollc'.pc # "idle"
        /\ InvalidPoll(pollc'.time, pollc'.options)) =>
       /\ pollc'.pc = "reply"
       /\ pollc'.err # ""
       /\ jobs' = jobs
       /\ msgs' = msgs
  /\ (pollc.pc = "reply" /\ pollc'.pc # "reply") =>
       /\ jobs' = jobs
       /\ msgs' = msgs

OnlyValidPollsGoOn ==
  pollc.pc \in {"send", "react"} => ~InvalidPoll(pollc.time, pollc.options)

SignedUpBefore(p, j) ==
  /\ SignupDone(p)
  /\ req[p].eid = j
  /\ req[p].who \in ChannelMembers
  /\ IsEvent(job[p])
  /\ err[p] \notin {"does_not_exist", "JobLookupError"}
  /\ jobs[j] # NoJob

AnnouncesEverySignup ==
  \A i \in (Len(fired) + 1)..Len(fired') :
    fired'[i].func = "register_event" =>
      LET members == Members(fired'[i]) IN
        /\ members[1] = Mention(Creator(fired'[i]))
        /\ NoDup(members)
        /\ \A p \in Procs :
             SignedUpBefore(p, fired'[i].id)
               => Contains(members, Mention(req[p].who))

ScanStarts == fire /\ ~fire' /\ scan'.day = today

NamesOf(s) ==
  IF s.pc = "waiting" THEN s.message.names
  ELSE IF Len(s.sent) > 0 THEN s.sent[1].names
  ELSE <<>>

DueNames(day) ==
  LET people == DueOn(day) IN [i \in 1..Len(people) |-> people[i].name]

C27_DueByMonthAndDay ==
  [][ScanStarts => NamesOf(scan') = DueNames(today)]_vars

\* ------------------------------------------------------------------------
\* what a duration string denotes: a bare number is that many minutes; else
\* each number counts in the unit written after it
UnitSeconds(c) ==
  IF c = "d" THEN SECONDS_IN_DAY
  ELSE IF c = "h" THEN SECONDS_IN_HOUR
  ELSE IF c = "m" THEN SECONDS_IN_MINUTE
  ELSE 1

RECURSIVE Denoted(_)
Denoted(str) ==
  IF Len(str) = 0 THEN 0
  ELSE IF IsInt(str) THEN SECONDS_IN_MINUTE * int(str)
  ELSE LET k == DigitPrefix(str) IN
         Val(SubSeq(str, 1, k)) * UnitSeconds(str[k + 1])
           + Denoted(SubSeq(str, k + 2, Len(str)))

\* a >poll past its checks holds what parse_time returned for its string
Parsed == pollc.pc \in {"send", "react"}

ParsedAsDenoted ==
  Parsed =>
    /\ pollc.timing[1] \in 0..(SECONDS_IN_MINUTE - 1)
    /\ pollc.timing[2] \in 0..59
    /\ pollc.timing[3] \in 0..23
    /\ pollc.timing[4] >= 0
    /\ timedelta(pollc.timing) = Denoted(pollc.time)
    /\ timedelta(pollc.timing) >= MinPollSeconds

\* the step of >poll that adds the job
PollJobAdded == pollc.pc = "react" /\ pollc' = NoPoll

\* C28 as stated: for every accepted duration string parse_time returns
\* seconds and minutes below 60 and hours below 24 whose total is what the
\* string denotes, at least 30 seconds, and the poll job's run time is the
\* time the poll message was posted plus that total.
C28_ScheduledFromCreation ==
  /\ [](ParsedAsDenoted)
  /\ [][PollJobAdded =>
          jobs'[nextId].run_date
            = pollc.created_at + timedelta(pollc.timing)]_vars

\* C28, amended: ... and the poll job's run time is the time read after the
\* last reaction was added plus that total: never earlier than the total
\* after the poll message was posted, and at least 30 seconds after the job
\* is added.
C28_ScheduledFromLastReaction ==
  /\ [](ParsedAsDenoted)
  /\ [][PollJobAdded =>
          /\ jobs'[nextId].run_date = now + timedelta(pollc.timing)
          /\ jobs'[nextId].run_date
               >= pollc.created_at + timedelta(pollc.timing)
          /\ jobs'[nextId].run_date >= now + MinPollSeconds]_vars

\* a poll job is pending whose duration has days in it and which was added
\* after the clock had moved
C28_Witness ==
  \E j \in JobIds, time \in TimingInputs :
    /\ jobs[j] # NoJob
    /\ jobs[j].func = "poll_result"
    /\ ~ParseRaises(time)
    /\ parse_time(time)[4] > 0
    /\ now > 0
    /\ jobs[j].run_date = now + Denoted(time)

\* ------------------------------------------------------------------------
\* C29: the cached list changes only while the scan does not hold the lock,
\* and what a refresh leaves for the scans that follow is the whole sheet it
\* read, sorted: every row of it that has a name cell.
ListChangesOutsideScan ==
  (birthdays' # birthdays) => (~lock /\ scan.pc = "idle")

WholeSheet(data) == SelectSeq(data, LAMBDA row : row # ShortRow)

RefreshIsWhole ==
  \A data \in SheetInputs \cup BrokenSheets :
    refresh_birthdays(data) => birthdays' = SortPeople(WholeSheet(data))

C29_ScanSeesWholeList == [][ListChangesOutsideScan /\ RefreshIsWhole]_vars

\* ------------------------------------------------------------------------
\* C30: a run of the scan that holds the lock ends and releases it, so that
\* the lock is free again for a refresh or for the next scan, whether or not
\* the announcement channel resolves.
C30_ScanReleasesLock == lock ~> (~lock /\ scan.pc = "idle")

\* ------------------------------------------------------------------------
\* C31: when signup or cancel sends what it has to say, to the channel, to
\* the author or to ctx, it holds no lock, and the send changes no lock and
\* no job; "has signed up" is sent only when the participant is in the
\* job's list, the cancellation only when the job is out of the store.
Sender(p) == pc[p] = "reply" /\ req[p].kind \in {"signup", "cancel"}

Holds(p) == \E h \in held : h[1] = p

NoSendUnderLock == \A p \in Procs : Sender(p) => ~Holds(p)

Applied(p) ==
  IF req[p].kind = "signup"
    THEN \/ /\ jobs[req[p].eid] # NoJob
            /\ Contains(Members(jobs[req[p].eid]), Mention(req[p].who))
         \/ \E i \in 1..Len(fired) :
              /\ fired[i].id = req[p].eid
              /\ Contains(Members(fired[i]), Mention(req[p].who))
    ELSE job[p] # NoJob /\ jobs[req[p].eid] = NoJob

NoticeOnlyWhenApplied ==
  \A p \in Procs :
    (Sender(p) /\ ReplyOf(p).text \in {"has_signed_up", "cancelled",
                                       "channel_no_longer_exists"})
      => Applied(p)

SendChangesNothing ==
  \A p \in Procs :
    (Sender(p) /\ pc'[p] = "idle") => (held' = held /\ jobs' = jobs)

C31_NoticeAfterRelease ==
  /\ [](NoSendUnderLock /\ NoticeOnlyWhenApplied)
  /\ [][SendChangesNothing]_vars

\* a cancel is about to send its answer about a job it found, and another
\* command already holds the lock of that job
C31_Witness ==
  \E p, q \in Procs :
    /\ Sender(p)
    /\ req[p].kind = "cancel"
    /\ job[p] # NoJob
    /\ ReplyOf(p).to = "ctx"
    /\ q # p
    /\ <<q, req[p].eid>> \in held

\* ------------------------------------------------------------------------
\* the uses stored for an emoji (0 when there is no counter), and the hash
\* with that number put in its place: no field for 0
AllEmojis == unicode_emojis \cup discord_emojis

Count(h, emoji) == IF emoji \in DOMAIN h THEN int(h[emoji]) ELSE 0

WithCount(h, emoji, n) ==
  IF n = 0
    THEN [f \in DOMAIN h \ {emoji} |-> h[f]]
    ELSE SetItem(h, emoji, str_of(n))

Occurrences(content, emoji) ==
  Len(SelectSeq(content, LAMBDA t : t = emoji))

CountersAtLeastOne ==
  \A k \in StatMembers :
    \A f \in DOMAIN stats[k] \ {"consent"} :
      /\ f \in AllEmojis
      /\ int(stats[k][f]) >= 1
      /\ stats[k][f] = str_of(int(stats[k][f]))

AddThenRemoveRestores ==
  \A k \in StatMembers, emoji \in AllEmojis :
    Flag(k) = <<"1">> =>
      LET n == Count(stats[k], emoji) IN
        WithCount(WithCount(stats[k], emoji, n + 1), emoji, n) = stats[k]

OthersUntouched(k) == \A o \in StatMembers \ {k} : stats'[o] = stats[o]

\* a step changes the hash of one pair at most
OneHashPerStep ==
  \A k, o \in StatMembers :
    (stats'[k] # stats[k] /\ stats'[o] # stats[o]) => k = o

AddCountsOne ==
  \A k \in StatMembers, emoji \in AllEmojis :
    (Flag(k) = <<"1">> /\ inflight' = inflight /\ OthersUntouched(k)
       /\ on_reaction_add(k, emoji)) =>
      stats'[k] = WithCount(stats[k], emoji, Count(stats[k], emoji) + 1)

RemoveTakesOne ==
  \A k \in StatMembers, emoji \in AllEmojis :
    (Flag(k) = <<"1">> /\ emoji \in DOMAIN stats[k]
       /\ inflight' = inflight /\ OthersUntouched(k)
       /\ on_reaction_remove(k, emoji)) =>
      stats'[k] = WithCount(stats[k], emoji, Count(stats[k], emoji) - 1)

MessageCounted(k, content) ==
  /\ \A emoji \in AllEmojis :
       Count(stats'[k], emoji)
         = Count(stats[k], emoji) + Occurrences(content, emoji)
  /\ DOMAIN stats'[k] \subseteq AllEmojis \cup {"consent"}
  /\ stats'[k]["consent"] = <<"1">>

MessageCountsEach ==
  /\ \A k \in StatMembers, content \in Contents :
       (Flag(k) = <<"1">> /\ inflight' = inflight /\ OthersUntouched(k)
          /\ on_message(k, FALSE, content))
         => MessageCounted(k, content)
  /\ (inflight # NoMessage /\ inflight' = NoMessage
        /\ Flag(inflight.key) = <<"1">> /\ OthersUntouched(inflight.key)
        /\ on_message_rest)
       => MessageCounted(inflight.key, inflight.content)

\* C32: for a pair that consents, whatever the order the handlers run in,
\* a reaction add raises the stored count of its emoji by one, a reaction
\* remove lowers the count of a stored emoji by one, and a message raises
\* the count of every emoji by the times it occurs in it, each leaving every
\* other counter and the flag as they were, and no step changes the hashes
\* of two pairs; a stored
\* counter is a number, at least 1, a count of 0 being no field at all; an
\* add followed by the remove of the same emoji gives the hash back.
C32_CountersAreExact ==
  /\ [](CountersAtLeastOne /\ AddThenRemoveRestores)
  /\ [][OneHashPerStep /\ AddCountsOne /\ RemoveTakesOne
          /\ MessageCountsEach]_vars

\* a consenting pair has a count of 2 stored while a command message of
\* the pair, with emojis in it, is still to be counted
C32_Witness ==
  /\ inflight # NoMessage
  /\ Flag(inflight.key) = <<"1">>
  /\ \E emoji \in AllEmojis : Count(stats[inflight.key], emoji) = 2
  /\ findall(AllEmojis, inflight.content) # <<>>


====
